---- MODULE Spec2Model ----
(***************************************************************************)
(* Write-back of FactGrid ids to Wikidata (factgridbot/bot.py,             *)
(* factgridbot/wikidata.py): Bot.sync_wd_with_factgrid_ids submits one     *)
(* task per mapping pair to a ThreadPoolExecutor(max_workers=1), registers *)
(* the progress callback on each future, collects the results with        *)
(* as_completed and returns the SyncErrorRecords.  The worker runs         *)
(* Bot._sync_wd_with_factgrid_id, which fetches the Wikidata entity,       *)
(* applies Wikidata.add_factgrid_id and writes the entity back.            *)
(*                                                                         *)
(* The sync command (factgridbot/cli.py) selects one discovery strategy,   *)
(* runs the discovery queries of Bot, FactGrid and Wikidata against the    *)
(* two graphs and, unless dry-run is set, starts the write-back.  The      *)
(* family-names command matches FactGrid and Wikidata items by label       *)
(* (Bot.get_label_matches_by_entity_class) and writes the unambiguous      *)
(* matches to FactGrid.  Batched lookups go through                        *)
(* Wikibase.execute_values_query_in_chunks.                                *)
(*                                                                         *)
(* The check command reports property mappings whose declared datatypes    *)
(* differ and mappings that are not one to one.  The translation between   *)
(* Wikidata sitelinks and entity URIs (factgridbot/factgrid.py) and the    *)
(* keyword arguments of sync_wd_with_factgrid_ids in the two packages are  *)
(* modelled on their own.                                                  *)
(***************************************************************************)
EXTENDS Naturals, Sequences, FiniteSets, TLC

\* ------------------------------------------------------------------ bounds
\* longest batch given to sync_wd_with_factgrid_ids
MaxBatch == 2

\* ------------------------------------------------------------- identifiers
\* Python's None and the empty string, the two falsy ids
NoneId == "<None>"
EmptyId == ""

\* Wikidata entity URIs that occur as the first component of a pair
WdIds == {"http://www.wikidata.org/entity/Q5", "http://www.wikidata.org/entity/Q6"}

\* Wikibase.get_entity_id: the entity id of an entity URI (the URI without
\* the prefix of the wikibase)
get_entity_id(uri) ==
    CASE uri = "https://database.factgrid.de/entity/Q7" -> "Q7"
      [] uri = "https://database.factgrid.de/entity/Q8" -> "Q8"
      [] uri = "https://database.factgrid.de/entity/Q9" -> "Q9"
      [] uri = "http://www.wikidata.org/entity/Q4" -> "Q4"
      [] uri = "http://www.wikidata.org/entity/Q5" -> "Q5"
      [] uri = "http://www.wikidata.org/entity/Q6" -> "Q6"
      [] OTHER -> NoneId

FACTGRID_ITEM_ID == "P8168"
FACTGRID_PROPERTY_ID == "P10787"
PropertyIds == {FACTGRID_ITEM_ID, FACTGRID_PROPERTY_ID}

\* --------------------------------------------------------- entities, claims
\* A claim of an entity: the value of its main snak (NoneId: the snak has no
\* value) and its references, each reference the sequence of its parts.
Claim(value, references) == [value |-> value, references |-> references]

\* the reference add_factgrid_id attaches: stated in FactGrid, retrieved now
NewReferences == << <<"P248", "P813">> >>

NoClaims == [p \in PropertyIds |-> << >>]

ItemEntity(claims) == [type |-> "item", claims |-> claims]

PropertyEntity(claims) == [type |-> "property", claims |-> claims]

\* an entity that is neither an item nor a property
LexemeEntity(claims) == [type |-> "lexeme", claims |-> claims]

NoEntity == [type |-> "none", claims |-> NoClaims]

\* entity.claims.get(property_id): the claims of the property, none when the
\* entity has no claim for it
ClaimsGet(entity, property_id) == entity.claims[property_id]

\* add_factgrid_id that overwrites the value of a single claim with a
\* different value
add_factgrid_id_overwriting(entity, factgrid_id) ==
    IF factgrid_id = NoneId \/ entity.type # "item" THEN entity
    ELSE LET claims == ClaimsGet(entity, FACTGRID_ITEM_ID)
         IN  IF claims = << >>
             THEN [entity EXCEPT !.claims[FACTGRID_ITEM_ID] =
                        <<Claim(factgrid_id, NewReferences)>>]
             ELSE IF Len(claims) = 1 /\ claims[1].value \notin {NoneId, factgrid_id}
             THEN [entity EXCEPT !.claims[FACTGRID_ITEM_ID] =
                        <<Claim(factgrid_id, claims[1].references)>>]
             ELSE entity

\* add_factgrid_id that does not look at the existing claims
add_factgrid_id_unchecked(entity, factgrid_id) ==
    IF factgrid_id = NoneId \/ entity.type # "item" THEN entity
    ELSE [entity EXCEPT !.claims[FACTGRID_ITEM_ID] =
             Append(@, Claim(factgrid_id, NewReferences))]

\* add_factgrid_id that, among several claims, adds the value when none of
\* them has it
add_factgrid_id_resolving(entity, factgrid_id) ==
    IF factgrid_id = NoneId \/ entity.type # "item" THEN entity
    ELSE LET claims == ClaimsGet(entity, FACTGRID_ITEM_ID)
         IN  IF claims = << >>
                \/ (Len(claims) > 1 /\ \A j \in 1..Len(claims) : claims[j].value # factgrid_id)
             THEN [entity EXCEPT !.claims[FACTGRID_ITEM_ID] =
                        Append(@, Claim(factgrid_id, NewReferences))]
             ELSE entity

\* add_factgrid_id whose reference lacks the retrieval time
add_factgrid_id_undated(entity, factgrid_id) ==
    IF factgrid_id = NoneId \/ entity.type # "item" THEN entity
    ELSE IF ClaimsGet(entity, FACTGRID_ITEM_ID) # << >> THEN entity
    ELSE [entity EXCEPT !.claims[FACTGRID_ITEM_ID] =
             <<Claim(factgrid_id, << <<"P248">> >>)>>]

\* add_factgrid_id that uses the property of items for every entity
add_factgrid_id_one_property(entity, factgrid_id) ==
    IF factgrid_id = NoneId THEN entity
    ELSE IF entity.type \notin {"item", "property"} THEN entity
    ELSE IF ClaimsGet(entity, FACTGRID_ITEM_ID) # << >> THEN entity
    ELSE [entity EXCEPT !.claims[FACTGRID_ITEM_ID] =
             Append(@, Claim(factgrid_id, NewReferences))]

\* Wikidata.add_factgrid_id: the entity after the call
add_factgrid_id(entity, factgrid_id) ==
    IF factgrid_id = NoneId THEN entity
    ELSE IF entity.type \notin {"item", "property"} THEN entity
    ELSE LET property_id == IF entity.type = "item" THEN FACTGRID_ITEM_ID
                            ELSE FACTGRID_PROPERTY_ID
             claims == ClaimsGet(entity, property_id)
         IN  IF claims # << >>
             THEN IF Len(claims) > 1
                  THEN entity     \* several claims: logged
                  ELSE LET value == claims[1].value
                       IN  IF value = factgrid_id THEN entity   \* pass
                           ELSE IF value = NoneId THEN entity   \* no value: logged
                           ELSE entity                          \* a different value: logged
             ELSE [entity EXCEPT !.claims[property_id] =
                        Append(@, Claim(factgrid_id, NewReferences))]

\* ------------------------------------------------------- sync error records
MappingErrorMsg == "Mapping error both ids bust be defined"
WriteErrorMsg == "write_item failed"
FetchErrorMsg == "get_item failed"
ValidationErrorMsg == "ValidationError: SyncErrorRecord"

NoResult == [kind |-> "None"]
Raised(msg) == [kind |-> "exception", error_message |-> msg]

\* SyncErrorRecord(wd_id=..., factgrid_id=..., error_message=...): both id
\* fields are declared str, so the model validation rejects None
SyncErrorRecord(wd_id, factgrid_id, error_message) ==
    IF wd_id = NoneId \/ factgrid_id = NoneId
    THEN Raised(ValidationErrorMsg)
    ELSE [kind |-> "SyncErrorRecord", wd_id |-> wd_id,
          factgrid_id |-> factgrid_id, error_message |-> error_message]

\* write_item called outside the try block: its exception ends the call
UncaughtWriteError(wd_id, factgrid_id, error_message) == Raised(error_message)

\* except Exception as ex: result = SyncErrorRecord(wd_id=wd_id,
\* factgrid_id=factgrid_id, error_message=str(ex))
CaughtWriteError(wd_id, factgrid_id, error_message) ==
    SyncErrorRecord(wd_id, factgrid_id, error_message)

\* not (factgrid_id and wd_id)
Malformed(wd_id, factgrid_id) ==
    factgrid_id \in {NoneId, EmptyId} \/ wd_id \in {NoneId, EmptyId}

\* ------------------------------------------------------------------- state
\* a pool of two workers
two_workers == 1 + 1

\* ThreadPoolExecutor(max_workers=1)
max_workers == 1
Workers == 1..max_workers

\* the claim lists a Wikidata item holds for P8168 before the batch: none, one
\* claim (for a pair the identical value or a different one), one claim
\* without a value, several claims
InitialClaimLists ==
    { << >>,
      << Claim("Q8", << >>) >>,
      << Claim(NoneId, << >>) >>,
      << Claim("Q8", << >>), Claim("Q9", << >>) >> }

\* Wikidata before the batch: Q5 holds one of the claim lists, Q6 no claim
InitialStores ==
    { [wd \in WdIds |->
          [p \in PropertyIds |->
              IF p = FACTGRID_ITEM_ID /\ wd = "http://www.wikidata.org/entity/Q5"
              THEN l ELSE << >>]]
      : l \in InitialClaimLists }

\* Wikibase.get_item: the entity as Wikidata holds it
get_item(wikidata, wd_id) == ItemEntity(wikidata[wd_id])

\* Wikibase.write_item: Wikidata after the entity was written
write_item(wikidata, wd_id, wd_item) == [wikidata EXCEPT ![wd_id] = wd_item.claims]

VARIABLES
    mappings,           \* the batch: a sequence of pairs <<wd_id, factgrid_id>>
    progress_callback,  \* whether a progress callback was given
    store,              \* Wikidata: the claims of each entity
    pc,                 \* where sync_wd_with_factgrid_ids is
    futures,            \* the futures submitted so far, in order
    queue,              \* the executor's work queue: indices of futures
    worker,             \* each worker thread's task and position in it
    finished,           \* as_completed: the futures finished at its start, not yet yielded
    yielded,            \* as_completed: the futures yielded so far
    failed,             \* the list sync_wd_with_factgrid_ids returns
    cbCount,            \* how often the progress callback ran for each future
    calls,              \* the remote calls made, in order
    doneOrder,          \* the futures in the order they finished
    startOrder,         \* the futures in the order a worker started them
    hist                \* per task: what its run fetched, changed and met

vars == <<mappings, progress_callback, store, pc, futures, queue, worker,
          finished, yielded, failed, cbCount, calls, doneOrder, startOrder, hist>>

\* the sync command (factgridbot/cli.py) and the two graphs discovery queries
VARIABLES
    options,            \* the options of the sync command
    sitelinks,          \* FactGrid: the pairs <<Wikidata page, FactGrid item>> linked
    cli,                \* where the sync command is
    strategy,           \* the discovery strategy the sync command took
    queries             \* the queries sent to the two query services, in order

syncVars == <<options, sitelinks, cli, strategy, queries>>

\* the family-names command (factgridbot/cli.py) and the items it matches
VARIABLES
    fgItems,            \* FactGrid: label and Wikidata sitelink of each family-name item
    wdItems,            \* Wikidata: the label of each family-name item
    fam,                \* where the family-names command is
    label_mappings,     \* the triples label matching returned
    valid_mappings,     \* the mappings the command keeps for the write
    fails,              \* the list add_wikidata_id_to_factgrid_family_name returns
    written,            \* the pairs <<Wikidata id, FactGrid id>> written, in order
    force,              \* the force option of the family-names command
    prompts,            \* the questions the command asked, with the answers
    advanced            \* the passes of the loop after which the progress callback ran

labelVars == <<fgItems, wdItems, fam, label_mappings, valid_mappings, fails, written,
               force, prompts, advanced>>

\* a chunked VALUES query (Wikibase.execute_values_query_in_chunks)
VARIABLES
    query_template,     \* the query template
    all_values,         \* the value list
    chunk_size,         \* the chunk size
    requests,           \* the chunks sent so far, one request each
    result_rows,        \* the rows returned so far
    chunked             \* where the chunked query is

chunkVars == <<query_template, all_values, chunk_size, requests, result_rows, chunked>>

\* the check command (factgridbot/cli.py) and the property statements it reads
VARIABLES
    prop_statements,    \* FactGrid: the pairs <<FactGrid property, Wikidata property id>> of P343
    declared_types,     \* the declared value type of each property of the two graphs
    check_opts,         \* the flags of the check command
    check_pc,           \* where the check command is
    type_table,         \* the table of properties with different datatypes
    mapping_tables      \* the two tables of duplicate property mappings

checkVars == <<prop_statements, declared_types, check_opts, check_pc, type_table,
               mapping_tables>>

\* a translation between a Wikidata sitelink URL and a Wikidata entity URI
\* (factgridbot/factgrid.py) and back
VARIABLES
    uri_in,             \* the URI given
    uri_out,            \* its translation
    uri_back,           \* the translation of the translation
    uri_pc              \* which translations were made

uriVars == <<uri_in, uri_out, uri_back, uri_pc>>

\* the call of sync_wd_with_factgrid_ids: the package of the Bot and the
\* keyword arguments given besides mappings and progress_callback
VARIABLES
    package,            \* "factgridbot" or "factgridsyncwdbot"
    kwargs              \* the pairs <<keyword, value>> given; an int n is <<n>>, None << >>

argVars == <<package, kwargs>>

\* a call of Wikidata.add_factgrid_id (factgridbot/wikidata.py) on its own
VARIABLES
    given_entity,       \* the entity before the call
    given_id,           \* the FactGrid id given
    changed_entity,     \* the entity after the call
    added               \* whether the call was made

entityVars == <<given_entity, given_id, changed_entity, added>>

\* the variables of the commands and operations outside sync, family-names
\* and the chunked query
moreVars == <<checkVars, uriVars, argVars, entityVars>>

\* the variables of the commands other than sync
restVars == <<labelVars, chunkVars, moreVars>>

\* no family-names command runs
NoFamilyNames ==
    /\ fgItems = << >>
    /\ wdItems = << >>
    /\ fam = "none"
    /\ label_mappings = << >>
    /\ valid_mappings = << >>
    /\ fails = << >>
    /\ written = << >>
    /\ force = FALSE
    /\ prompts = << >>
    /\ advanced = << >>

\* no chunked query runs
NoChunkedQuery ==
    /\ query_template = "none"
    /\ all_values = << >>
    /\ chunk_size = 1
    /\ requests = << >>
    /\ result_rows = << >>
    /\ chunked = "none"

\* a table that was not printed
NoTable == [printed |-> FALSE, rows |-> << >>]

\* no check command runs
NoPropertyCheck ==
    /\ prop_statements = {}
    /\ declared_types = << >>
    /\ check_opts = [types |-> FALSE, mapping |-> FALSE]
    /\ check_pc = "none"
    /\ type_table = NoTable
    /\ mapping_tables = [factgrid_to_wd |-> NoTable, wd_to_factgrid |-> NoTable]

\* no URI is translated
NoTranslation ==
    /\ uri_in = NoneId
    /\ uri_out = NoneId
    /\ uri_back = NoneId
    /\ uri_pc = "none"

\* sync_wd_with_factgrid_ids of factgridbot called as the sync command calls
\* it: without max_retries
DefaultArguments ==
    /\ package = "factgridbot"
    /\ kwargs = {}

\* add_factgrid_id is not called on its own
NoEntityCall ==
    /\ given_entity = NoEntity
    /\ given_id = NoneId
    /\ changed_entity = NoEntity
    /\ added = FALSE

\* nothing else runs
NoMore == NoPropertyCheck /\ NoTranslation /\ DefaultArguments /\ NoEntityCall

\* no option is set
NoOptions == [factgrid_entity |-> NoneId, wd_entity |-> NoneId, all |-> FALSE,
              date |-> NoneId, dry_run |-> FALSE]

\* sync_wd_with_factgrid_ids called on its own: no command runs
NoCommand ==
    /\ options = NoOptions
    /\ sitelinks = {}
    /\ cli = "none"
    /\ strategy = "none"
    /\ queries = << >>
    /\ NoFamilyNames
    /\ NoChunkedQuery
    /\ NoMore

\* the pairs of a batch: well-formed ones, two of them for the same Wikidata
\* entity, and pairs with an empty or missing id (get_item_mapping_for
\* passes an unbound factgrid_item on as None)
Pairs ==
    { <<"http://www.wikidata.org/entity/Q5", "https://database.factgrid.de/entity/Q7">>,
      <<"http://www.wikidata.org/entity/Q5", "https://database.factgrid.de/entity/Q8">>,
      <<"http://www.wikidata.org/entity/Q6", "https://database.factgrid.de/entity/Q7">>,
      <<EmptyId, "https://database.factgrid.de/entity/Q7">>,
      <<"http://www.wikidata.org/entity/Q5", EmptyId>>,
      <<"http://www.wikidata.org/entity/Q6", NoneId>> }

\* the pairs of the batches that meet Wikidata entities with claims
ClaimPairs ==
    { <<"http://www.wikidata.org/entity/Q5", "https://database.factgrid.de/entity/Q7">>,
      <<"http://www.wikidata.org/entity/Q5", "https://database.factgrid.de/entity/Q8">>,
      <<"http://www.wikidata.org/entity/Q6", "https://database.factgrid.de/entity/Q7">>,
      <<"http://www.wikidata.org/entity/Q6", EmptyId>> }

BatchesOf(pairs) == UNION {[1..n -> pairs] : n \in 0..MaxBatch}

IdleWorker == [task |-> 0, stage |-> "idle", wd_item |-> NoEntity, result |-> NoResult]

NoHist == [outcome |-> "none", fetched |-> NoEntity, entity |-> NoEntity,
           storeBefore |-> NoClaims, storeAfter |-> NoClaims]

InitWith(batches, stores, callbacks) ==
    /\ mappings \in batches
    /\ progress_callback \in callbacks
    /\ store \in stores
    /\ pc = "submit"
    /\ futures = << >>
    /\ queue = << >>
    /\ worker = [w \in Workers |-> IdleWorker]
    /\ finished = {}
    /\ yielded = << >>
    /\ failed = << >>
    /\ cbCount = [k \in 1..Len(mappings) |-> 0]
    /\ calls = << >>
    /\ doneOrder = << >>
    /\ startOrder = << >>
    /\ hist = [k \in 1..Len(mappings) |-> NoHist]

\* a batch as discovery yields it: no Wikidata entity of it has a claim for
\* the back-reference property; with or without a progress callback
Init == InitWith(BatchesOf(Pairs), {[wd \in WdIds |-> NoClaims]}, BOOLEAN) /\ NoCommand

\* a batch that meets Wikidata entities which may hold back-reference claims
\* already; the progress callback of the sync command
InitClaims == InitWith(BatchesOf(ClaimPairs), InitialStores, {TRUE}) /\ NoCommand

\* ------------------------------------------------ sync_wd_with_factgrid_ids
Future(state, result, callback) ==
    [state |-> state, result |-> result, callback |-> callback]

\* executor.submit(self._sync_wd_with_factgrid_id, ...); futures.append(future)
Submit ==
    /\ pc = "submit"
    /\ Len(futures) < Len(mappings)
    /\ futures' = Append(futures, Future("pending", NoResult, FALSE))
    /\ queue' = Append(queue, Len(futures) + 1)
    /\ pc' = IF progress_callback THEN "add_done_callback" ELSE "submit"
    /\ UNCHANGED <<mappings, progress_callback, store, worker, finished, yielded,
                   failed, cbCount, calls, doneOrder, startOrder, hist>>

\* the progress callback called right after the submission
CallbackAtSubmit ==
    /\ pc = "add_done_callback"
    /\ cbCount' = [cbCount EXCEPT ![Len(futures)] = @ + 1]
    /\ pc' = "submit"
    /\ UNCHANGED <<mappings, progress_callback, store, futures, queue, worker,
                   finished, yielded, failed, calls, doneOrder, startOrder, hist>>

\* future.add_done_callback(progress_callback): registered on a future that
\* is not finished yet, called at once by the caller on a finished future
AddDoneCallback ==
    /\ pc = "add_done_callback"
    /\ LET k == Len(futures)
       IN  IF futures[k].state # "finished"
           THEN /\ futures' = [futures EXCEPT ![k].callback = TRUE]
                /\ UNCHANGED cbCount
           ELSE /\ cbCount' = [cbCount EXCEPT ![k] = @ + 1]
                /\ UNCHANGED futures
    /\ pc' = "submit"
    /\ UNCHANGED <<mappings, progress_callback, store, queue, worker, finished,
                   yielded, failed, calls, doneOrder, startOrder, hist>>

\* as_completed(futures): the futures already finished are yielded first, in
\* no particular order, the others as they finish
AsCompleted ==
    /\ pc = "submit"
    /\ Len(futures) = Len(mappings)
    /\ finished' = {k \in 1..Len(futures) : futures[k].state = "finished"}
    /\ pc' = "collect"
    /\ UNCHANGED <<mappings, progress_callback, store, futures, queue, worker,
                   yielded, failed, cbCount, calls, doneOrder, startOrder, hist>>

InSeq(x, s) == \E j \in 1..Len(s) : s[j] = x

\* the futures as_completed can yield next
NextCompleted ==
    IF finished # {} THEN finished
    ELSE LET later == {j \in 1..Len(doneOrder) : ~InSeq(doneOrder[j], yielded)}
         IN  IF later = {} THEN {}
             ELSE {doneOrder[CHOOSE j \in later : \A j2 \in later : j <= j2]}

\* one pass of the loop over as_completed: result = future.result(), which
\* raises the exception of a future whose call raised
Collect ==
    /\ pc = "collect"
    /\ Len(yielded) < Len(futures)
    /\ \E k \in NextCompleted :
          /\ finished' = finished \ {k}
          /\ yielded' = Append(yielded, k)
          /\ IF futures[k].result.kind = "exception"
             THEN /\ pc' = "exit_raise"
                  /\ UNCHANGED failed
             ELSE /\ pc' = "collect"
                  /\ failed' = IF futures[k].result.kind = "SyncErrorRecord"
                               THEN Append(failed, futures[k].result)
                               ELSE failed
    /\ UNCHANGED <<mappings, progress_callback, store, futures, queue, worker,
                   cbCount, calls, doneOrder, startOrder, hist>>

\* as_completed is exhausted: the with block is left normally
CollectDone ==
    /\ pc = "collect"
    /\ Len(yielded) = Len(futures)
    /\ pc' = "exit"
    /\ UNCHANGED <<mappings, progress_callback, store, futures, queue, worker,
                   finished, yielded, failed, cbCount, calls, doneOrder,
                   startOrder, hist>>

\* leaving the with block: executor.shutdown(wait=True) lets the workers
\* finish the queued tasks and joins them; then the function returns failed,
\* or the exception of future.result() goes on to the caller
Shutdown ==
    /\ pc \in {"exit", "exit_raise"}
    /\ queue = << >>
    /\ \A w \in Workers : worker[w].stage = "idle"
    /\ pc' = IF pc = "exit" THEN "returned" ELSE "raised"
    /\ UNCHANGED <<mappings, progress_callback, store, futures, queue, worker,
                   finished, yielded, failed, cbCount, calls, doneOrder,
                   startOrder, hist>>

\* ------------------------------------------------------- the worker threads
\* the parameter max_retries of sync_wd_with_factgrid_ids: the value given,
\* None by default
max_retries_of(given) ==
    IF \E kw \in given : kw[1] = "max_retries"
    THEN (CHOOSE kw \in given : kw[1] = "max_retries")[2]
    ELSE << >>

\* max_retries=max_retries in the write_item call of factgridbot
max_retries_passed(max_retries) == {<<"max_retries", max_retries>>}

\* the keyword arguments of the write_item call besides summary and
\* fix_known_issues: factgridsyncwdbot passes none
write_item_kwargs ==
    IF package = "factgridbot" THEN max_retries_passed(max_retries_of(kwargs))
    ELSE {}

\* a remote call as the client library sees it
Call(op, k) == [op |-> op, wd_id |-> mappings[k][1], task |-> k,
                kwargs |-> IF op = "write_item" THEN write_item_kwargs ELSE {}]

\* a worker takes the oldest work item of the queue: the future is running
Take(w, k) ==
    /\ worker[w].stage = "idle"
    /\ queue # << >>
    /\ k = Head(queue)
    /\ queue' = Tail(queue)
    /\ startOrder' = Append(startOrder, k)

\* future.set_result / future.set_exception: the future is finished
Finish(k, result) ==
    /\ futures' = [futures EXCEPT ![k].state = "finished", ![k].result = result]
    /\ doneOrder' = Append(doneOrder, k)

\* _sync_wd_with_factgrid_id, a pair with a falsy id: the error record is
\* built, without any remote call
RejectMalformed(w) ==
    \E k \in 1..Len(futures) :
       /\ Take(w, k)
       /\ LET wd_id == mappings[k][1]
              factgrid_id == mappings[k][2]
          IN  /\ Malformed(wd_id, factgrid_id)
              /\ worker' = [worker EXCEPT ![w] =
                    [IdleWorker EXCEPT !.task = k, !.stage = "set_result",
                        !.result = SyncErrorRecord(wd_id, factgrid_id, MappingErrorMsg)]]
              /\ futures' = [futures EXCEPT ![k].state = "running"]
              /\ hist' = [hist EXCEPT ![k].outcome = "malformed"]
       /\ UNCHANGED <<mappings, progress_callback, store, pc, finished, yielded,
                      failed, cbCount, calls, doneOrder>>

\* a call that fetches the entity and writes it only if add_factgrid_id
\* changed it
GetItemWriteIfChanged(w) ==
    \E k \in 1..Len(futures) :
       /\ Take(w, k)
       /\ LET wd_id == mappings[k][1]
              factgrid_id == mappings[k][2]
          IN  /\ ~Malformed(wd_id, factgrid_id)
              /\ calls' = Append(calls, Call("get_item", k))
              /\ LET wd_item == get_item(store, wd_id)
                     changed == add_factgrid_id(wd_item, get_entity_id(factgrid_id))
                 IN  /\ worker' = [worker EXCEPT ![w] =
                            [IdleWorker EXCEPT !.task = k,
                                               !.stage = IF changed = wd_item
                                                         THEN "set_result" ELSE "write",
                                               !.wd_item = changed]]
                     /\ hist' = [hist EXCEPT ![k].outcome = "fetched",
                                             ![k].fetched = wd_item,
                                             ![k].entity = changed]
              /\ futures' = [futures EXCEPT ![k].state = "running"]
       /\ UNCHANGED <<mappings, progress_callback, store, pc, finished, yielded,
                      failed, cbCount, doneOrder>>

\* wd_item = self.wikidata.get_item(wd_id) succeeds;
\* self.wikidata.add_factgrid_id(wd_item, self.factgrid.get_entity_id(factgrid_id))
GetItem(w) ==
    \E k \in 1..Len(futures) :
       /\ Take(w, k)
       /\ LET wd_id == mappings[k][1]
              factgrid_id == mappings[k][2]
          IN  /\ ~Malformed(wd_id, factgrid_id)
              /\ calls' = Append(calls, Call("get_item", k))
              /\ LET wd_item == get_item(store, wd_id)
                     changed == add_factgrid_id(wd_item, get_entity_id(factgrid_id))
                 IN  /\ worker' = [worker EXCEPT ![w] =
                            [IdleWorker EXCEPT !.task = k, !.stage = "write",
                                               !.wd_item = changed]]
                     /\ hist' = [hist EXCEPT ![k].outcome = "fetched",
                                             ![k].fetched = wd_item,
                                             ![k].entity = changed]
              /\ futures' = [futures EXCEPT ![k].state = "running"]
       /\ UNCHANGED <<mappings, progress_callback, store, pc, finished, yielded,
                      failed, cbCount, doneOrder>>

\* self.wikidata.get_item(wd_id) raises: nothing catches it, the call ends
\* with the exception
GetItemFails(w) ==
    \E k \in 1..Len(futures) :
       /\ Take(w, k)
       /\ ~Malformed(mappings[k][1], mappings[k][2])
       /\ calls' = Append(calls, Call("get_item", k))
       /\ worker' = [worker EXCEPT ![w] =
             [IdleWorker EXCEPT !.task = k, !.stage = "set_result",
                                !.result = Raised(FetchErrorMsg)]]
       /\ futures' = [futures EXCEPT ![k].state = "running"]
       /\ hist' = [hist EXCEPT ![k].outcome = "fetch_failed"]
       /\ UNCHANGED <<mappings, progress_callback, store, pc, finished, yielded,
                      failed, cbCount, doneOrder>>

\* self.wikidata.write_item(wd_item, ...) succeeds: Wikidata holds the entity
\* as written; the call returns None, the result of the future
WriteItem(w) ==
    /\ worker[w].stage = "write"
    /\ LET k == worker[w].task
           wd_id == mappings[k][1]
       IN  /\ calls' = Append(calls, Call("write_item", k))
           /\ store' = write_item(store, wd_id, worker[w].wd_item)
           /\ worker' = [worker EXCEPT ![w].stage = "callbacks", ![w].result = NoResult]
           /\ hist' = [hist EXCEPT ![k].outcome = "written",
                                   ![k].storeBefore = store[wd_id],
                                   ![k].storeAfter = worker[w].wd_item.claims]
           /\ Finish(k, NoResult)
    /\ UNCHANGED <<mappings, progress_callback, pc, queue, finished,
                   yielded, failed, cbCount, startOrder>>

\* self.wikidata.write_item raises: the exception is caught and becomes the
\* SyncErrorRecord of the pair, the result of the future
WriteItemFails(w) ==
    /\ worker[w].stage = "write"
    /\ LET k == worker[w].task
           result == CaughtWriteError(mappings[k][1], mappings[k][2], WriteErrorMsg)
       IN  /\ calls' = Append(calls, Call("write_item", k))
           /\ worker' = [worker EXCEPT ![w].stage = "callbacks", ![w].result = result]
           /\ hist' = [hist EXCEPT ![k].outcome = "write_failed",
                                   ![k].storeBefore = store[mappings[k][1]],
                                   ![k].storeAfter = store[mappings[k][1]]]
           /\ Finish(k, result)
    /\ UNCHANGED <<mappings, progress_callback, store, pc, queue, finished,
                   yielded, failed, cbCount, startOrder>>

\* a call that ended without reaching write_item: its record or its exception
\* is the result of the future
SetResult(w) ==
    /\ worker[w].stage = "set_result"
    /\ Finish(worker[w].task, worker[w].result)
    /\ worker' = [worker EXCEPT ![w].stage = "callbacks"]
    /\ UNCHANGED <<mappings, progress_callback, store, pc, queue, finished,
                   yielded, failed, cbCount, calls, startOrder, hist>>

\* the finished future calls the callbacks registered on it; the worker is
\* free for the next work item
InvokeCallbacks(w) ==
    /\ worker[w].stage = "callbacks"
    /\ LET k == worker[w].task
       IN  cbCount' = IF futures[k].callback THEN [cbCount EXCEPT ![k] = @ + 1]
                      ELSE cbCount
    /\ worker' = [worker EXCEPT ![w] = IdleWorker]
    /\ UNCHANGED <<mappings, progress_callback, store, pc, futures, queue,
                   finished, yielded, failed, calls, doneOrder, startOrder, hist>>

Next ==
    \/ Submit /\ UNCHANGED <<syncVars, restVars>>
    \/ AddDoneCallback /\ UNCHANGED <<syncVars, restVars>>
    \/ AsCompleted /\ UNCHANGED <<syncVars, restVars>>
    \/ Collect /\ UNCHANGED <<syncVars, restVars>>
    \/ CollectDone /\ UNCHANGED <<syncVars, restVars>>
    \/ Shutdown /\ UNCHANGED <<syncVars, restVars>>
    \/ \E w \in Workers : RejectMalformed(w) /\ UNCHANGED <<syncVars, restVars>>
    \/ \E w \in Workers : GetItem(w) /\ UNCHANGED <<syncVars, restVars>>
    \/ \E w \in Workers : GetItemFails(w) /\ UNCHANGED <<syncVars, restVars>>
    \/ \E w \in Workers : WriteItem(w) /\ UNCHANGED <<syncVars, restVars>>
    \/ \E w \in Workers : WriteItemFails(w) /\ UNCHANGED <<syncVars, restVars>>
    \/ \E w \in Workers : SetResult(w) /\ UNCHANGED <<syncVars, restVars>>
    \/ \E w \in Workers : InvokeCallbacks(w) /\ UNCHANGED <<syncVars, restVars>>

Spec == Init /\ [][Next]_vars

SpecClaims == InitClaims /\ [][Next]_vars

\* ---------------------------------------------- the two graphs and their ids
MaxLinks == 2

WikiPages == {"https://www.wikidata.org/wiki/Q5", "https://www.wikidata.org/wiki/Q6"}
FactGridItems == {"https://database.factgrid.de/entity/Q7",
                  "https://database.factgrid.de/entity/Q8"}

\* the two prefixes of the translation
item_prefix == "http://www.wikidata.org/entity/"
wiki_page_prefix == "https://www.wikidata.org/wiki/"

\* a URI is read as the pieces it is made of: the two prefixes and the
\* entity ids; any other string is one piece
MaxTokens == 3
UriTokens == {item_prefix, wiki_page_prefix, "Q5", "Q6"}
TokenSeqs == UNION {[1..n -> UriTokens] : n \in 0..MaxTokens}

RECURSIVE Join(_)
Join(tokens) == IF tokens = << >> THEN "" ELSE tokens[1] \o Join(Tail(tokens))

Tokens(uri) ==
    CASE uri = "https://www.wikidata.org/wiki/Q5" -> <<wiki_page_prefix, "Q5">>
      [] uri = "https://www.wikidata.org/wiki/Q6" -> <<wiki_page_prefix, "Q6">>
      [] uri = "http://www.wikidata.org/entity/Q5" -> <<item_prefix, "Q5">>
      [] uri = "http://www.wikidata.org/entity/Q6" -> <<item_prefix, "Q6">>
      [] OTHER -> IF \E tokens \in TokenSeqs : Join(tokens) = uri
                  THEN CHOOSE tokens \in TokenSeqs : Join(tokens) = uri
                  ELSE <<uri>>

\* str.replace(old, new) for a prefix as old: every occurrence is replaced
str_replace(uri, old, new) ==
    Join([j \in 1..Len(Tokens(uri)) |->
             IF Tokens(uri)[j] = old THEN new ELSE Tokens(uri)[j]])

\* str.removeprefix(prefix): the string without the prefix it starts with
removeprefix(uri, prefix) ==
    IF Tokens(uri) # << >> /\ Tokens(uri)[1] = prefix THEN Join(Tail(Tokens(uri)))
    ELSE uri

\* FactGrid.get_wikidata_entity_id_from_sitelink:
\* sitelink_url.replace(wiki_page_prefix, item_prefix)
get_wikidata_entity_id_from_sitelink(sitelink_url) ==
    str_replace(sitelink_url, wiki_page_prefix, item_prefix)

\* FactGrid.get_wikidata_sitelink_from_entity_id:
\* entity_id.replace(item_prefix, wiki_page_prefix)
get_wikidata_sitelink_from_entity_id(entity_id) ==
    str_replace(entity_id, item_prefix, wiki_page_prefix)

\* wd_item_prefix + wd_id.removeprefix(wd_wiki_prefix)
wd_referenced_entity(wd_id) ==
    "http://www.wikidata.org/entity/" \o removeprefix(wd_id, "https://www.wikidata.org/wiki/")

\* bot.wikidata.item_prefix.unicode_string() + wd_entity
wd_item_uri(wd_entity) == "http://www.wikidata.org/entity/" \o wd_entity

\* bot.factgrid.item_prefix.unicode_string() + factgrid_entity
factgrid_item_uri(factgrid_entity) == "https://database.factgrid.de/entity/" \o factgrid_entity

\* the orders in which a query service can return a set of rows
Perms(rows) ==
    {f \in [1..Cardinality(rows) -> rows] : \A r \in rows : \E j \in 1..Cardinality(rows) : f[j] = r}

Range(s) == {s[j] : j \in 1..Len(s)}

\* ------------------------------------------------------- discovery queries
\* the links of every page, whatever entities were asked for
get_item_mapping_for_unrestricted(links, wd_item_ids) ==
    {<<get_wikidata_entity_id_from_sitelink(d[1]), d[2]>> : d \in links}

\* FactGrid.get_item_mapping_for: the links of the pages of the given Wikidata
\* entities, as pairs <<Wikidata entity, FactGrid item>>
get_item_mapping_for(links, wd_item_ids) ==
    LET values == {get_wikidata_sitelink_from_entity_id(wd_item) : wd_item \in wd_item_ids}
        lod == {l \in links : l[1] \in values}
    IN  {<<get_wikidata_entity_id_from_sitelink(d[1]), d[2]>> : d \in lod}

\* FactGrid.get_reverse_item_mapping_for: the links of the given FactGrid items
get_reverse_item_mapping_for(links, factgrid_item_ids) ==
    LET lod == {l \in links : l[2] \in factgrid_item_ids}
    IN  {<<get_wikidata_entity_id_from_sitelink(d[1]), d[2]>> : d \in lod}

\* FactGrid.get_all_referenced_wikidata_items: every linked Wikidata page
get_all_referenced_wikidata_items(links) == {l[1] : l \in links}

\* ?wd_id wdt:P8168 ?factgrid_id: a statement of the entity with a value
HasBackref(wikidata, wd_id) ==
    \E j \in 1..Len(wikidata[wd_id][FACTGRID_ITEM_ID]) :
        wikidata[wd_id][FACTGRID_ITEM_ID][j].value # NoneId

\* Wikidata.retrieve_missing_factgrid_reference: the entities among item_ids
\* that Wikidata holds and that have no statement for P8168
retrieve_missing_factgrid_reference(wikidata, item_ids) ==
    {wd_id \in item_ids \cap WdIds : ~HasBackref(wikidata, wd_id)}

\* a query as a query service saw it: the values asked about, the rows returned
Query(service, name, values, rows) ==
    [service |-> service, name |-> name, values |-> values, rows |-> rows]

\* global discovery that maps every referenced entity back, missing or not
get_all_referenced_items_in_wd(links, wikidata) ==
    LET wd_references_wiki == get_all_referenced_wikidata_items(links)
        wd_referenced_entities == {wd_referenced_entity(wd_id) : wd_id \in wd_references_wiki}
        wd_missing_ref == retrieve_missing_factgrid_reference(wikidata, wd_referenced_entities)
        mapping == get_item_mapping_for(links, wd_referenced_entities)
    IN  [mapping |-> mapping,
         queries |-> << Query("factgrid", "get_all_referenced_wikidata_items", {},
                              wd_references_wiki),
                        Query("wikidata", "retrieve_missing_factgrid_reference",
                              wd_referenced_entities, wd_missing_ref),
                        Query("factgrid", "get_item_mapping_for", wd_referenced_entities,
                              mapping) >>]

\* Bot.get_all_missing_factgrid_items_in_wd: the mapping and the queries made
get_all_missing_factgrid_items_in_wd(links, wikidata) ==
    LET wd_references_wiki == get_all_referenced_wikidata_items(links)
        wd_referenced_entities == {wd_referenced_entity(wd_id) : wd_id \in wd_references_wiki}
        wd_missing_ref == retrieve_missing_factgrid_reference(wikidata, wd_referenced_entities)
        missing_wd_ref_mapping == get_item_mapping_for(links, wd_missing_ref)
    IN  [mapping |-> missing_wd_ref_mapping,
         queries |-> << Query("factgrid", "get_all_referenced_wikidata_items", {},
                              wd_references_wiki),
                        Query("wikidata", "retrieve_missing_factgrid_reference",
                              wd_referenced_entities, wd_missing_ref),
                        Query("factgrid", "get_item_mapping_for", wd_missing_ref,
                              missing_wd_ref_mapping) >>]

\* modification-window discovery that returns the whole mapping of the
\* modified items
get_wd_to_factgrid_item_reference_for(links, modified_entities, wikidata) ==
    LET wd_to_factgrid_map == get_reverse_item_mapping_for(links, modified_entities)
        referenced_wd_entities == {m[1] : m \in wd_to_factgrid_map}
        wd_missing_ref == retrieve_missing_factgrid_reference(wikidata, referenced_wd_entities)
    IN  [mapping |-> wd_to_factgrid_map,
         queries |-> << Query("factgrid", "get_items_modified_at", {}, modified_entities),
                        Query("factgrid", "get_reverse_item_mapping_for",
                              modified_entities, wd_to_factgrid_map),
                        Query("wikidata", "retrieve_missing_factgrid_reference",
                              referenced_wd_entities, wd_missing_ref) >>]

\* Bot.get_missing_wd_to_factgrid_item_reference_for: the mapping of the items
\* modified on/after the date, cut down to the Wikidata entities that miss
\* the back-reference
get_missing_wd_to_factgrid_item_reference_for(links, modified_entities, wikidata) ==
    LET wd_to_factgrid_map == get_reverse_item_mapping_for(links, modified_entities)
        referenced_wd_entities == {m[1] : m \in wd_to_factgrid_map}
        wd_missing_ref == retrieve_missing_factgrid_reference(wikidata, referenced_wd_entities)
    IN  [mapping |-> {m \in wd_to_factgrid_map : m[1] \in wd_missing_ref},
         queries |-> << Query("factgrid", "get_items_modified_at", {}, modified_entities),
                        Query("factgrid", "get_reverse_item_mapping_for",
                              modified_entities, wd_to_factgrid_map),
                        Query("wikidata", "retrieve_missing_factgrid_reference",
                              referenced_wd_entities, wd_missing_ref) >>]

\* ---------------------------------------------------------- the sync command
\* an option as Python tests it: None and the empty string are falsy
Truthy(value) == value \notin {NoneId, EmptyId}

\* the dates the command accepts: 'today', 'yesterday' or an iso-format date
ValidDates == {"today", "yesterday", "2024-05-01"}

\* the strategy the wd_entity option would take before any other
choose_wd_entity_first(opts) ==
    IF Truthy(opts.wd_entity) THEN "wd_entity"
    ELSE IF Truthy(opts.factgrid_entity) THEN "factgrid_entity"
    ELSE IF Truthy(opts.date) THEN "date"
    ELSE IF opts.all THEN "all"
    ELSE "abort"

\* the if/elif chain of sync: the branch the options select
choose_strategy(opts) ==
    IF Truthy(opts.factgrid_entity) THEN "factgrid_entity"
    ELSE IF Truthy(opts.wd_entity) THEN "wd_entity"
    ELSE IF Truthy(opts.date) THEN "date"
    ELSE IF opts.all THEN "all"
    ELSE "abort"

\* the write-back step runs whatever the dry-run flag says
write_back_always(opts) == TRUE

\* if not dry_run
write_back_wanted(opts) == ~opts.dry_run

\* mappings = <the list a discovery call returns>: the rows in the order the
\* query service gave them
Discovered(name, found) ==
    /\ strategy' = name
    /\ queries' = queries \o found.queries
    /\ mappings' \in Perms(found.mapping)
    /\ cli' = "discovered"
    /\ UNCHANGED <<options, sitelinks, progress_callback, store, pc,
                   futures, queue, worker, finished, yielded, failed, cbCount,
                   calls, doneOrder, startOrder, hist>>

\* if factgrid_entity: bot.factgrid.get_reverse_item_mapping_for({prefix + factgrid_entity})
SyncFactgridEntity ==
    /\ cli = "sync"
    /\ choose_strategy(options) = "factgrid_entity"
    /\ LET ids == {factgrid_item_uri(options.factgrid_entity)}
           found == get_reverse_item_mapping_for(sitelinks, ids)
       IN  Discovered("factgrid_entity",
              [mapping |-> found,
               queries |-> << Query("factgrid", "get_reverse_item_mapping_for", ids, found) >>])

\* elif wd_entity: bot.factgrid.get_item_mapping_for({prefix + wd_entity})
SyncWdEntity ==
    /\ cli = "sync"
    /\ choose_strategy(options) = "wd_entity"
    /\ LET ids == {wd_item_uri(options.wd_entity)}
           found == get_item_mapping_for(sitelinks, ids)
       IN  Discovered("wd_entity",
              [mapping |-> found,
               queries |-> << Query("factgrid", "get_item_mapping_for", ids, found) >>])

\* elif date, a date the command accepts:
\* bot.get_missing_wd_to_factgrid_item_reference_for(start_date)
SyncDate ==
    /\ cli = "sync"
    /\ choose_strategy(options) = "date"
    /\ options.date \in ValidDates
    /\ \E modified_entities \in SUBSET FactGridItems :
          Discovered("date",
             get_missing_wd_to_factgrid_item_reference_for(sitelinks, modified_entities,
                                                           store))

\* elif all: bot.get_all_missing_factgrid_items_in_wd()
SyncAll ==
    /\ cli = "sync"
    /\ choose_strategy(options) = "all"
    /\ Discovered("all", get_all_missing_factgrid_items_in_wd(sitelinks, store))

\* raise typer.Abort(): the date is no date, or no option is set
SyncAbort ==
    /\ cli = "sync"
    /\ \/ choose_strategy(options) = "date" /\ options.date \notin ValidDates
       \/ choose_strategy(options) = "abort"
    /\ strategy' = choose_strategy(options)
    /\ cli' = "aborted"
    /\ UNCHANGED <<options, sitelinks, queries, vars>>

\* the queries a strategy makes, with their answers, and the mapping it returns
discovery_of(name, links, opts, modified_entities, wikidata) ==
    CASE name = "factgrid_entity" ->
            LET ids == {factgrid_item_uri(opts.factgrid_entity)}
                found == get_reverse_item_mapping_for(links, ids)
            IN  [mapping |-> found,
                 queries |-> << Query("factgrid", "get_reverse_item_mapping_for", ids, found) >>]
      [] name = "wd_entity" ->
            LET ids == {wd_item_uri(opts.wd_entity)}
                found == get_item_mapping_for(links, ids)
            IN  [mapping |-> found,
                 queries |-> << Query("factgrid", "get_item_mapping_for", ids, found) >>]
      [] name = "date" ->
            get_missing_wd_to_factgrid_item_reference_for(links, modified_entities, wikidata)
      [] name = "all" -> get_all_missing_factgrid_items_in_wd(links, wikidata)

\* a discovery that goes on after a failed query with the rows it has: none
QueryFailureSkipped(name, answered) ==
    /\ strategy' = name
    /\ queries' = queries \o answered
    /\ mappings' = << >>
    /\ cli' = "discovered"
    /\ UNCHANGED <<options, sitelinks, progress_callback, store, pc,
                   futures, queue, worker, finished, yielded, failed, cbCount,
                   calls, doneOrder, startOrder, hist>>

\* a query raises: neither the discovery methods of Bot, FactGrid and Wikidata
\* nor sync have a try around it, so that the exception ends the command
\* before `mappings` is assigned again
QueryRaised(name, answered) ==
    /\ strategy' = name
    /\ queries' = queries \o answered
    /\ cli' = "query_raised"
    /\ UNCHANGED <<options, sitelinks, mappings, progress_callback, store, pc,
                   futures, queue, worker, finished, yielded, failed, cbCount,
                   calls, doneOrder, startOrder, hist>>

\* one of the queries of the chosen strategy fails in the query service or on
\* the way: the queries before it were answered
SyncQueryFails ==
    /\ cli = "sync"
    /\ \/ choose_strategy(options) \in {"factgrid_entity", "wd_entity", "all"}
       \/ choose_strategy(options) = "date" /\ options.date \in ValidDates
    /\ \E modified_entities \in SUBSET FactGridItems :
          LET found == discovery_of(choose_strategy(options), sitelinks, options,
                                    modified_entities, store)
          IN  \E failing \in 1..Len(found.queries) :
                 QueryRaised(choose_strategy(options),
                             SubSeq(found.queries, 1, failing - 1))

\* if not dry_run: bot.sync_wd_with_factgrid_ids(mappings=mappings,
\* progress_callback=lambda _: progress.advance(task, 1), ...) is called
StartWriteBack ==
    /\ cli = "discovered"
    /\ write_back_wanted(options)
    /\ cli' = "write_back"
    /\ pc' = "submit"
    /\ progress_callback' = TRUE
    /\ cbCount' = [k \in 1..Len(mappings) |-> 0]
    /\ hist' = [k \in 1..Len(mappings) |-> NoHist]
    /\ UNCHANGED <<options, sitelinks, strategy, queries, mappings, store,
                   futures, queue, worker, finished, yielded, failed, calls,
                   doneOrder, startOrder>>

\* else: "Skipping sync step in dry_run mode"
SkipWriteBack ==
    /\ cli = "discovered"
    /\ ~write_back_wanted(options)
    /\ cli' = "done"
    /\ UNCHANGED <<options, sitelinks, strategy, queries, vars>>

\* sync_wd_with_factgrid_ids returned the failed syncs, which are printed, or
\* raised, which ends the command
EndWriteBack ==
    /\ cli = "write_back"
    /\ pc \in {"returned", "raised"}
    /\ cli' = IF pc = "returned" THEN "done" ELSE "raised"
    /\ UNCHANGED <<options, sitelinks, strategy, queries, vars>>

\* the options of a run of the command
Options ==
    [factgrid_entity : {NoneId, "Q7"}, wd_entity : {NoneId, "Q5"}, all : BOOLEAN,
     date : {NoneId, "today", "tomorrow"}, dry_run : BOOLEAN]

\* Wikidata when the command starts: an entity has no claim for P8168 or one
SyncStores ==
    { [wd \in WdIds |->
          [p \in PropertyIds |->
              IF p = FACTGRID_ITEM_ID /\ wd \in linked THEN << Claim("Q8", << >>) >>
              ELSE << >>]]
      : linked \in SUBSET WdIds }

\* the sync command starts: any options, FactGrid with some links, Wikidata
\* with some back-references
InitSync ==
    /\ options \in Options
    /\ sitelinks \in {l \in SUBSET (WikiPages \X FactGridItems) : Cardinality(l) <= MaxLinks}
    /\ cli = "sync"
    /\ strategy = "none"
    /\ queries = << >>
    /\ NoFamilyNames
    /\ NoChunkedQuery
    /\ NoMore
    /\ mappings = << >>
    /\ progress_callback = FALSE
    /\ store \in SyncStores
    /\ pc = "none"
    /\ futures = << >>
    /\ queue = << >>
    /\ worker = [w \in Workers |-> IdleWorker]
    /\ finished = {}
    /\ yielded = << >>
    /\ failed = << >>
    /\ cbCount = << >>
    /\ calls = << >>
    /\ doneOrder = << >>
    /\ startOrder = << >>
    /\ hist = << >>

\* the command and the write-back it starts; the pairs discovery returns have
\* both ids bound, so that no pair is rejected as malformed
NextSync ==
    \/ SyncFactgridEntity /\ UNCHANGED restVars
    \/ SyncWdEntity /\ UNCHANGED restVars
    \/ SyncDate /\ UNCHANGED restVars
    \/ SyncAll /\ UNCHANGED restVars
    \/ SyncAbort /\ UNCHANGED restVars
    \/ SyncQueryFails /\ UNCHANGED restVars
    \/ StartWriteBack /\ UNCHANGED restVars
    \/ SkipWriteBack /\ UNCHANGED restVars
    \/ EndWriteBack /\ UNCHANGED restVars
    \/ Submit /\ UNCHANGED <<syncVars, restVars>>
    \/ AddDoneCallback /\ UNCHANGED <<syncVars, restVars>>
    \/ AsCompleted /\ UNCHANGED <<syncVars, restVars>>
    \/ Collect /\ UNCHANGED <<syncVars, restVars>>
    \/ CollectDone /\ UNCHANGED <<syncVars, restVars>>
    \/ Shutdown /\ UNCHANGED <<syncVars, restVars>>
    \/ \E w \in Workers : GetItem(w) /\ UNCHANGED <<syncVars, restVars>>
    \/ \E w \in Workers : GetItemFails(w) /\ UNCHANGED <<syncVars, restVars>>
    \/ \E w \in Workers : WriteItem(w) /\ UNCHANGED <<syncVars, restVars>>
    \/ \E w \in Workers : WriteItemFails(w) /\ UNCHANGED <<syncVars, restVars>>
    \/ \E w \in Workers : SetResult(w) /\ UNCHANGED <<syncVars, restVars>>
    \/ \E w \in Workers : InvokeCallbacks(w) /\ UNCHANGED <<syncVars, restVars>>

SpecSync == InitSync /\ [][NextSync]_<<vars, syncVars>>

\* the discovery step of the command alone
NextDiscovery ==
    \/ SyncFactgridEntity /\ UNCHANGED restVars
    \/ SyncWdEntity /\ UNCHANGED restVars
    \/ SyncDate /\ UNCHANGED restVars
    \/ SyncAll /\ UNCHANGED restVars
    \/ SyncAbort /\ UNCHANGED restVars
    \/ SyncQueryFails /\ UNCHANGED restVars

SpecDiscovery == InitSync /\ [][NextDiscovery]_<<vars, syncVars>>

\* -------------------------------------------------- label-matching discovery
FgFamilyItems == {"https://database.factgrid.de/entity/Q7",
                  "https://database.factgrid.de/entity/Q8",
                  "https://database.factgrid.de/entity/Q9"}
WdFamilyItems == {"http://www.wikidata.org/entity/Q4",
                  "http://www.wikidata.org/entity/Q5",
                  "http://www.wikidata.org/entity/Q6"}
Labels == {"Smith", "Jones"}

\* FactGrid.get_entities_with_missing_wikidata_id: the items of the class
\* without a Wikidata sitelink
get_entities_with_missing_wikidata_id(factgrid) ==
    {item \in DOMAIN factgrid : factgrid[item].wikidatawiki = NoneId}

\* Wikibase.get_entity_label: the label of each of the entities
get_entity_label(factgrid, entity_ids) ==
    [item \in entity_ids |-> factgrid[item].label]

\* Wikidata.get_entities_by_labels: the rows <<item, label>> of the items of
\* the class that carry one of the labels
get_entities_by_labels(wikidata, labels) ==
    {<<item, wikidata[item]>> : item \in {i \in DOMAIN wikidata : wikidata[i] \in labels}}

\* a grouping in which a later id replaces the earlier one of its label
label_to_last(pairs, label) ==
    LET ids == {p[1] : p \in {x \in pairs : x[2] = label}}
    IN  IF ids = {} THEN {} ELSE {CHOOSE id \in ids : TRUE}

\* label_to_...[label].append(id): the ids grouped under a label
label_to(pairs, label) == {p[1] : p \in {x \in pairs : x[2] = label}}

\* result.append((label, wd_ids, fact_grid_ids))
label_triple(label, wd_ids, fact_grid_ids) == <<label, wd_ids, fact_grid_ids>>

\* Bot.get_label_matches_by_entity_class: the lists it can return, the ids and
\* the triples in the orders the query services can give them
get_label_matches_by_entity_class(factgrid, wikidata) ==
    LET factgrid_ids == get_entities_with_missing_wikidata_id(factgrid)
        factgrid_family_labels_map == get_entity_label(factgrid, factgrid_ids)
        factgrid_pairs == {<<qid, factgrid_family_labels_map[qid]>> : qid \in factgrid_ids}
        wikidata_family_labels_map ==
            get_entities_by_labels(wikidata, {p[2] : p \in factgrid_pairs})
        matched == {label \in {p[2] : p \in wikidata_family_labels_map} :
                       label_to(factgrid_pairs, label) # {}}
        triples(label) ==
            {label_triple(label, wd_ids, fact_grid_ids) :
                wd_ids \in Perms(label_to(wikidata_family_labels_map, label)),
                fact_grid_ids \in Perms(label_to(factgrid_pairs, label))}
    IN  {result \in [1..Cardinality(matched) -> UNION {triples(label) : label \in matched}] :
            {result[j][1] : j \in 1..Cardinality(matched)} = matched}

\* ------------------------------------------------- the family-names command
\* every triple is kept
any_candidates(wd_ids, factgrid_ids) == TRUE

\* if len(factgrid_ids) == 1 or len(wd_ids) == 1
unambiguous(wd_ids, factgrid_ids) == Len(factgrid_ids) = 1 \/ Len(wd_ids) = 1

\* valid_mappings = [(family_name, wd_ids[0], factgrid_ids[0]) for ... if ...]
valid_mappings_of(triples) ==
    LET keep(t) == unambiguous(t[2], t[3])
        kept == SelectSeq(triples, keep)
    IN  [j \in 1..Len(kept) |-> <<kept[j][1], kept[j][2][1], kept[j][3][1]>>]

\* label_mappings = bot.get_missing_family_name_mappings()
GetMissingFamilyNameMappings ==
    /\ fam = "family_names"
    /\ label_mappings' \in get_label_matches_by_entity_class(fgItems, wdItems)
    /\ fam' = "matched"
    /\ UNCHANGED <<fgItems, wdItems, valid_mappings, fails, written, force, prompts,
                   advanced>>

\* typer.confirm(question) answered
Prompt(question, answer) == [question |-> question, answer |-> answer]

\* show_table = not force or typer.confirm("Show valid family name mappings?")
\* add_wikidata_ids = force or typer.confirm("Are you sure ...?"):
\* the questions asked, which `or` leaves out when its left side is true
prompts_asked(force_set, show_answer, add_answer) ==
    (IF ~force_set THEN << >>
     ELSE << Prompt("Show valid family name mappings?", show_answer) >>)
    \o (IF force_set THEN << >>
        ELSE << Prompt("Are you sure you want to add the Wikidata Id to the FactGrid entities?",
                       add_answer) >>)

\* the ids are added whatever the user answers
add_unconfirmed(force_set, add_answer) == TRUE

\* add_wikidata_ids = force or typer.confirm(...)
add_wikidata_ids(force_set, add_answer) == force_set \/ add_answer

\* the valid mappings are built and shown; force is set or the user confirms:
\* bot.add_wikidata_id_to_factgrid_family_name(label_mappings=valid_mappings) starts
ConfirmAdd ==
    /\ fam = "matched"
    /\ valid_mappings' = valid_mappings_of(label_mappings)
    /\ \E show_answer, add_answer \in BOOLEAN :
          /\ prompts' = prompts_asked(force, show_answer, add_answer)
          /\ add_wikidata_ids(force, add_answer)
    /\ fam' = "adding"
    /\ UNCHANGED <<fgItems, wdItems, label_mappings, fails, written, force, advanced>>

\* force is not set and the user declines: nothing is added
DeclineAdd ==
    /\ fam = "matched"
    /\ valid_mappings' = valid_mappings_of(label_mappings)
    /\ \E show_answer, add_answer \in BOOLEAN :
          /\ prompts' = prompts_asked(force, show_answer, add_answer)
          /\ ~add_wikidata_ids(force, add_answer)
    /\ fam' = "done"
    /\ UNCHANGED <<fgItems, wdItems, label_mappings, fails, written, force, advanced>>

\* the mappings handled so far by the loop of add_wikidata_id_to_factgrid_family_name
Handled == Len(written) + Len(fails)

\* if progress_callback: progress_callback(), at the end of a pass; the
\* command gives a callback
ProgressCallback == advanced' = Append(advanced, Handled + 1)

\* one pass of the loop: the FactGrid item is fetched, the sitelink is set
\* (FactGrid.add_wikidata_id_to) and the item is written
AddWikidataId ==
    /\ fam = "adding"
    /\ Handled < Len(valid_mappings)
    /\ LET wikidata_id == valid_mappings[Handled + 1][2]
           factgrid_id == valid_mappings[Handled + 1][3]
       IN  /\ fgItems' = [fgItems EXCEPT ![factgrid_id].wikidatawiki =
                                             get_entity_id(wikidata_id)]
           /\ written' = Append(written, <<wikidata_id, factgrid_id>>)
    /\ ProgressCallback
    /\ UNCHANGED <<wdItems, fam, label_mappings, valid_mappings, fails, force, prompts>>

\* a loop without the try: the exception of the pass ends the call
FailurePropagated(label, factgrid_id, wikidata_id) ==
    /\ fam' = "raised"
    /\ UNCHANGED <<fails, advanced>>

\* except Exception as ex: fails.append((label, factgrid_id, wikidata_id));
\* the pass goes on to the progress callback
FailureRecorded(label, factgrid_id, wikidata_id) ==
    /\ fails' = Append(fails, <<label, factgrid_id, wikidata_id>>)
    /\ ProgressCallback
    /\ UNCHANGED fam

\* one pass of the loop in which get_item, add_wikidata_id_to or write_item
\* raises: FactGrid keeps the item as it was
AddWikidataIdFails ==
    /\ fam = "adding"
    /\ Handled < Len(valid_mappings)
    /\ FailureRecorded(valid_mappings[Handled + 1][1], valid_mappings[Handled + 1][3],
                       valid_mappings[Handled + 1][2])
    /\ UNCHANGED <<fgItems, wdItems, label_mappings, valid_mappings, written,
                   force, prompts>>

\* return fails
ReturnFails ==
    /\ fam = "adding"
    /\ Handled = Len(valid_mappings)
    /\ fam' = "done"
    /\ UNCHANGED <<fgItems, wdItems, label_mappings, valid_mappings, fails, written,
                   force, prompts, advanced>>

\* no write-back runs
NoWriteBack ==
    /\ mappings = << >>
    /\ progress_callback = FALSE
    /\ store = [wd \in WdIds |-> NoClaims]
    /\ pc = "none"
    /\ futures = << >>
    /\ queue = << >>
    /\ worker = [w \in Workers |-> IdleWorker]
    /\ finished = {}
    /\ yielded = << >>
    /\ failed = << >>
    /\ cbCount = << >>
    /\ calls = << >>
    /\ doneOrder = << >>
    /\ startOrder = << >>
    /\ hist = << >>

\* no sync command runs
NoSync ==
    /\ options = NoOptions
    /\ sitelinks = {}
    /\ cli = "none"
    /\ strategy = "none"
    /\ queries = << >>

\* the family-names command starts: FactGrid family names with a label, with
\* or without a Wikidata sitelink; Wikidata items that are family names with a
\* label, or not
InitLabels ==
    /\ fgItems \in [FgFamilyItems -> [label : Labels, wikidatawiki : {NoneId, "Q1"}]]
    /\ wdItems \in [WdFamilyItems -> Labels \cup {NoneId}]
    /\ fam = "family_names"
    /\ label_mappings = << >>
    /\ valid_mappings = << >>
    /\ fails = << >>
    /\ written = << >>
    /\ force \in BOOLEAN
    /\ prompts = << >>
    /\ advanced = << >>
    /\ NoWriteBack
    /\ NoSync
    /\ NoChunkedQuery
    /\ NoMore

NextLabels ==
    \/ GetMissingFamilyNameMappings /\ UNCHANGED <<vars, syncVars, chunkVars, moreVars>>
    \/ ConfirmAdd /\ UNCHANGED <<vars, syncVars, chunkVars, moreVars>>
    \/ DeclineAdd /\ UNCHANGED <<vars, syncVars, chunkVars, moreVars>>
    \/ AddWikidataId /\ UNCHANGED <<vars, syncVars, chunkVars, moreVars>>
    \/ AddWikidataIdFails /\ UNCHANGED <<vars, syncVars, chunkVars, moreVars>>
    \/ ReturnFails /\ UNCHANGED <<vars, syncVars, chunkVars, moreVars>>

SpecLabels == InitLabels /\ [][NextLabels]_<<vars, syncVars, restVars>>

\* ---------------------------------------------------- chunked VALUES queries
MaxValues == 3
MaxChunkSize == 3

\* a set of rows as a list, in some order
SetToSeq(rows) == CHOOSE f \in Perms(rows) : TRUE

\* the query of retrieve_missing_factgrid_reference without its VALUES
\* clause: every entity without a statement for P8168
select_all_missing(wikidata, vals) ==
    SetToSeq({wd_id \in WdIds : ~HasBackref(wikidata, wd_id)})

\* the query of Wikidata.retrieve_missing_factgrid_reference for the VALUES
\* vals: SELECT DISTINCT ?wd_id, each entity among vals that Wikidata holds
\* and that has no statement for P8168, once
select_distinct_missing(wikidata, vals) ==
    SetToSeq({wd_id \in Range(vals) \cap WdIds : ~HasBackref(wikidata, wd_id)})

\* the query of FactGrid.get_item_mapping_for for the VALUES vals: SELECT
\* ?wd_qid ?factgrid_item, one row per value and link of that page
RECURSIVE select_item_mapping(_, _)
select_item_mapping(links, vals) ==
    IF vals = << >> THEN << >>
    ELSE SetToSeq({l \in links : l[1] = Head(vals)}) \o select_item_mapping(links, Tail(vals))

\* Wikibase.execute_query: the rows of one request
execute_query(name, wikidata, links, vals) ==
    IF name = "retrieve_missing_factgrid_reference"
    THEN select_distinct_missing(wikidata, vals)
    ELSE select_item_mapping(links, vals)

RECURSIVE Concat(_)
Concat(lists) == IF lists = << >> THEN << >> ELSE Head(lists) \o Concat(Tail(lists))

\* the number of values sent so far
Sent == Len(Concat(requests))

\* the next chunk: at most chunk_size of the values not sent yet
next_chunk(vals, size, sent) ==
    SubSeq(vals, sent + 1, IF sent + size < Len(vals) THEN sent + size ELSE Len(vals))

\* execute_values_query_in_chunks, one pass: the next chunk is substituted
\* into the template, the request is sent and its rows are added to the result
ExecuteChunk ==
    /\ chunked = "running"
    /\ Sent < Len(all_values)
    /\ LET chunk == next_chunk(all_values, chunk_size, Sent)
       IN  /\ requests' = Append(requests, chunk)
           /\ result_rows' = result_rows \o execute_query(query_template, store, sitelinks, chunk)
    /\ UNCHANGED <<query_template, all_values, chunk_size, chunked>>

\* execute_values_query_in_chunks returns the rows of all chunks
ReturnRows ==
    /\ chunked = "running"
    /\ Sent >= Len(all_values)
    /\ chunked' = "returned"
    /\ UNCHANGED <<query_template, all_values, chunk_size, requests, result_rows>>

\* the value lists of at most MaxValues values
ValueLists(domain) == UNION {[1..n -> domain] : n \in 0..MaxValues}

\* a chunked query starts: the query of retrieve_missing_factgrid_reference
\* over a list of entity URIs, or the query of get_item_mapping_for over a
\* list of Wikidata pages; any value list, any chunk size >= 1
InitChunks ==
    /\ query_template \in {"retrieve_missing_factgrid_reference", "get_item_mapping_for"}
    /\ IF query_template = "retrieve_missing_factgrid_reference"
       THEN /\ all_values \in ValueLists(WdIds)
            /\ store \in SyncStores
            /\ sitelinks = {}
       ELSE /\ all_values \in ValueLists(WikiPages)
            /\ store = [wd \in WdIds |-> NoClaims]
            /\ sitelinks \in {l \in SUBSET (WikiPages \X FactGridItems) :
                                 Cardinality(l) <= MaxLinks}
    /\ chunk_size \in 1..MaxChunkSize
    /\ requests = << >>
    /\ result_rows = << >>
    /\ chunked = "running"
    /\ options = NoOptions
    /\ cli = "none"
    /\ strategy = "none"
    /\ queries = << >>
    /\ mappings = << >>
    /\ progress_callback = FALSE
    /\ pc = "none"
    /\ futures = << >>
    /\ queue = << >>
    /\ worker = [w \in Workers |-> IdleWorker]
    /\ finished = {}
    /\ yielded = << >>
    /\ failed = << >>
    /\ cbCount = << >>
    /\ calls = << >>
    /\ doneOrder = << >>
    /\ startOrder = << >>
    /\ hist = << >>
    /\ NoFamilyNames
    /\ NoMore

NextChunks ==
    \/ ExecuteChunk /\ UNCHANGED <<vars, syncVars, labelVars, moreVars>>
    \/ ReturnRows /\ UNCHANGED <<vars, syncVars, labelVars, moreVars>>

SpecChunks == InitChunks /\ [][NextChunks]_<<vars, syncVars, restVars>>

\* ---------------------------------------------------- the check command
MaxProps == 3

FgProps == {"https://database.factgrid.de/entity/P2",
            "https://database.factgrid.de/entity/P3"}

\* the values of P343 in FactGrid: ids of Wikidata properties
WdPropIds == {"P31", "P50"}

\* BIND(IRI(CONCAT("http://www.wikidata.org/entity/", ?wd_id)) as ?wd_prop)
wd_prop_of(wd_id) == "http://www.wikidata.org/entity/" \o wd_id

WdProps == {wd_prop_of(wd_id) : wd_id \in WdPropIds}

PropertyTypes == {"http://wikiba.se/ontology#String",
                  "http://wikiba.se/ontology#WikibaseItem"}

\* FactGrid.get_prop_mappings: a row <<wd_prop, factgrid_prop>> for every
\* statement, in the order the query service enumerates the statements
get_prop_mappings(statements) ==
    [j \in 1..Len(statements) |-> <<wd_prop_of(statements[j][2]), statements[j][1]>>]

\* get_property_types_of: the dict from each of the properties that declares
\* a value type to that type
get_property_types_of(declared, props) ==
    [prop \in {p \in props : declared[p] # NoneId} |-> declared[prop]]

\* dict.get(key): None if the key is missing
DictGet(dict, key) == IF key \in DOMAIN dict THEN dict[key] ELSE NoneId

\* PropertyMapping.have_same_datatype
have_same_datatype(property_mapping) ==
    property_mapping.factgrid.property_type = property_mapping.wikidata.property_type

\* a comparison of the types that only counts two declared types
declared_datatypes_differ(factgrid_type, wd_type) ==
    factgrid_type # NoneId /\ wd_type # NoneId /\ factgrid_type # wd_type

\* if factgrid_types.get(factgrid_prop) != wd_types.get(wd_prop)
datatypes_differ(factgrid_type, wd_type) == factgrid_type # wd_type

\* Bot.check_property_type_mappings: the rows of the table
check_property_type_mappings(statements, declared) ==
    LET mapping_list == get_prop_mappings(statements)
        wd_types == get_property_types_of(declared,
                        {mapping_list[j][1] : j \in 1..Len(mapping_list)})
        factgrid_types == get_property_types_of(declared,
                        {mapping_list[j][2] : j \in 1..Len(mapping_list)})
        row(m) == [wikidata |-> m[1],
                   wikidata_datatype |-> DictGet(wd_types, m[1]),
                   factgrid_datatype |-> DictGet(factgrid_types, m[2]),
                   factgrid |-> m[2]]
        mismatch(m) == datatypes_differ(DictGet(factgrid_types, m[2]),
                                        DictGet(wd_types, m[1]))
        mismatches == SelectSeq(mapping_list, mismatch)
    IN  [j \in 1..Len(mismatches) |-> row(mismatches[j])]

\* GROUP_CONCAT(?ids; SEPARATOR="|"): the ids with a separator between them
RECURSIVE group_concat(_)
group_concat(ids) ==
    IF Len(ids) <= 1 THEN ids
    ELSE <<ids[1], "|">> \o group_concat(Tail(ids))

\* str.split("|"): the pieces between the separators
RECURSIVE split(_)
split(tokens) ==
    IF \A j \in 1..Len(tokens) : tokens[j] # "|"
    THEN << IF tokens = << >> THEN "" ELSE tokens[1] >>
    ELSE LET sep == CHOOSE j \in 1..Len(tokens) :
                        tokens[j] = "|" /\ \A i \in 1..(j - 1) : tokens[i] # "|"
         IN  split(SubSeq(tokens, 1, sep - 1)) \o split(SubSeq(tokens, sep + 1, Len(tokens)))

\* GROUP BY: the keys in the order of their first row
RECURSIVE group_keys(_)
group_keys(keys) ==
    IF keys = << >> THEN << >>
    ELSE LET front == group_keys(SubSeq(keys, 1, Len(keys) - 1))
             last == keys[Len(keys)]
         IN  IF \E j \in 1..Len(front) : front[j] = last THEN front
             ELSE Append(front, last)

\* the dict a grouped query is turned into, as the list of its items: rows are
\* pairs <<key, counterpart>>
prop_mapping_of(rows) ==
    LET keys == group_keys([j \in 1..Len(rows) |-> rows[j][1]])
        ids_of(key) ==
            LET of_key(r) == r[1] = key
                group == SelectSeq(rows, of_key)
            IN  group_concat([j \in 1..Len(group) |-> group[j][2]])
    IN  [j \in 1..Len(keys) |-> <<keys[j], split(ids_of(keys[j]))>>]

\* FactGrid.get_prop_mapping_factgrid_to_wikidata
get_prop_mapping_factgrid_to_wikidata(statements) ==
    prop_mapping_of([j \in 1..Len(statements) |->
                        <<statements[j][1], wd_prop_of(statements[j][2])>>])

\* FactGrid.get_prop_mapping_wikidata_to_factgrid: the ids are the FactGrid
\* properties (the query concatenates ?factgrid_prop)
get_prop_mapping_wikidata_to_factgrid(statements) ==
    prop_mapping_of([j \in 1..Len(statements) |->
                        <<wd_prop_of(statements[j][2]), statements[j][1]>>])

\* str(n) of a count
str(n) == CASE n = 0 -> "0" [] n = 1 -> "1" [] n = 2 -> "2" [] n = 3 -> "3"
            [] n = 4 -> "4" [] n = 5 -> "5" [] n = 6 -> "6" [] n = 7 -> "7"
            [] n = 8 -> "8" [] n = 9 -> "9"

\* a property with any counterpart counts as a collision
has_counterpart(props) == Len(props) > 0

\* if len(wd_props) > 1 / if len(factgrid_props) > 1
is_collision(props) == Len(props) > 1

\* the rows of one table of check_duplicates_property_mappings
duplicate_rows(prop_mapping) ==
    LET collides(item) == is_collision(item[2])
        collisions == SelectSeq(prop_mapping, collides)
    IN  [j \in 1..Len(collisions) |->
            [property |-> collisions[j][1],
             count |-> str(Len(collisions[j][2])),
             counterparts |-> collisions[j][2]]]

\* Bot.check_duplicates_property_mappings: the two tables
check_duplicates_property_mappings(first, second) ==
    [factgrid_to_wd |->
        [printed |-> TRUE,
         rows |-> duplicate_rows(get_prop_mapping_factgrid_to_wikidata(first))],
     wd_to_factgrid |->
        [printed |-> TRUE,
         rows |-> duplicate_rows(get_prop_mapping_wikidata_to_factgrid(second))]]

\* if types: bot.check_property_type_mappings()
CheckTypes ==
    /\ check_pc = "check"
    /\ IF check_opts.types
       THEN \E statements \in Perms(prop_statements) :
               type_table' = [printed |-> TRUE,
                              rows |-> check_property_type_mappings(statements,
                                                                   declared_types)]
       ELSE type_table' = type_table
    /\ check_pc' = "types_checked"
    /\ UNCHANGED <<prop_statements, declared_types, check_opts, mapping_tables>>

\* if mapping: bot.check_duplicates_property_mappings()
CheckMapping ==
    /\ check_pc = "types_checked"
    /\ IF check_opts.mapping
       THEN \E first \in Perms(prop_statements) :
               mapping_tables' = check_duplicates_property_mappings(first, first)
       ELSE mapping_tables' = mapping_tables
    /\ check_pc' = "done"
    /\ UNCHANGED <<prop_statements, declared_types, check_opts, type_table>>

\* the check command starts: FactGrid properties with P343 statements, the
\* properties of both graphs with or without a declared type
InitCheck ==
    /\ prop_statements \in {s \in SUBSET (FgProps \X WdPropIds) : Cardinality(s) <= MaxProps}
    /\ declared_types \in [FgProps \cup WdProps -> PropertyTypes \cup {NoneId}]
    /\ check_opts \in [types : BOOLEAN, mapping : BOOLEAN]
    /\ check_pc = "check"
    /\ type_table = NoTable
    /\ mapping_tables = [factgrid_to_wd |-> NoTable, wd_to_factgrid |-> NoTable]
    /\ NoWriteBack
    /\ NoSync
    /\ NoFamilyNames
    /\ NoChunkedQuery
    /\ NoTranslation
    /\ DefaultArguments
    /\ NoEntityCall

NextCheck ==
    \/ CheckTypes /\ UNCHANGED <<vars, syncVars, labelVars, chunkVars, uriVars, argVars, entityVars>>
    \/ CheckMapping /\ UNCHANGED <<vars, syncVars, labelVars, chunkVars, uriVars, argVars, entityVars>>

SpecCheck == InitCheck /\ [][NextCheck]_<<vars, syncVars, restVars>>

\* ------------------------------------------- sitelink and entity URIs
\* the translation of a sitelink URL into an entity URI
ToEntityId ==
    /\ uri_pc = "given"
    /\ uri_out' = get_wikidata_entity_id_from_sitelink(uri_in)
    /\ uri_pc' = "entity_id"
    /\ UNCHANGED <<uri_in, uri_back>>

\* the translation of an entity URI into a sitelink URL
ToSitelink ==
    /\ uri_pc = "given"
    /\ uri_out' = get_wikidata_sitelink_from_entity_id(uri_in)
    /\ uri_pc' = "sitelink"
    /\ UNCHANGED <<uri_in, uri_back>>

\* the entity URI is translated back into a sitelink URL
EntityIdToSitelink ==
    /\ uri_pc = "entity_id"
    /\ uri_back' = get_wikidata_sitelink_from_entity_id(uri_out)
    /\ uri_pc' = "entity_id_and_back"
    /\ UNCHANGED <<uri_in, uri_out>>

\* the sitelink URL is translated back into an entity URI
SitelinkToEntityId ==
    /\ uri_pc = "sitelink"
    /\ uri_back' = get_wikidata_entity_id_from_sitelink(uri_out)
    /\ uri_pc' = "sitelink_and_back"
    /\ UNCHANGED <<uri_in, uri_out>>

\* any string made of the two prefixes and entity ids is given
InitUris ==
    /\ uri_in \in {Join(tokens) : tokens \in TokenSeqs}
    /\ uri_out = NoneId
    /\ uri_back = NoneId
    /\ uri_pc = "given"
    /\ NoWriteBack
    /\ NoSync
    /\ NoFamilyNames
    /\ NoChunkedQuery
    /\ NoPropertyCheck
    /\ DefaultArguments
    /\ NoEntityCall

NextUris ==
    \/ ToEntityId /\ UNCHANGED <<vars, syncVars, labelVars, chunkVars, checkVars, argVars, entityVars>>
    \/ ToSitelink /\ UNCHANGED <<vars, syncVars, labelVars, chunkVars, checkVars, argVars, entityVars>>
    \/ EntityIdToSitelink /\ UNCHANGED <<vars, syncVars, labelVars, chunkVars, checkVars, argVars, entityVars>>
    \/ SitelinkToEntityId /\ UNCHANGED <<vars, syncVars, labelVars, chunkVars, checkVars, argVars, entityVars>>

SpecUris == InitUris /\ [][NextUris]_<<vars, syncVars, restVars>>
\* ------------------------------------ the arguments of the write-back call
\* the keywords sync_wd_with_factgrid_ids takes besides mappings,
\* progress_callback and fix_known_issues
keywords_of(pkg) == IF pkg = "factgridbot" THEN {"max_retries"} ELSE {}

\* the call binds its arguments and starts
BindArguments ==
    /\ pc = "call"
    /\ \A kw \in kwargs : kw[1] \in keywords_of(package)
    /\ pc' = "submit"
    /\ UNCHANGED <<mappings, progress_callback, store, futures, queue, worker,
                   finished, yielded, failed, cbCount, calls, doneOrder,
                   startOrder, hist, package, kwargs>>

\* TypeError: the method got an unexpected keyword argument
RaiseTypeError ==
    /\ pc = "call"
    /\ \E kw \in kwargs : kw[1] \notin keywords_of(package)
    /\ pc' = "raised"
    /\ UNCHANGED <<mappings, progress_callback, store, futures, queue, worker,
                   finished, yielded, failed, cbCount, calls, doneOrder,
                   startOrder, hist, package, kwargs>>

\* the pairs of the batches of a call with a retry count
RetryPairs ==
    { <<"http://www.wikidata.org/entity/Q5", "https://database.factgrid.de/entity/Q7">>,
      <<"http://www.wikidata.org/entity/Q6", "https://database.factgrid.de/entity/Q8">>,
      <<"http://www.wikidata.org/entity/Q6", EmptyId>> }

\* sync_wd_with_factgrid_ids of either package is called, without max_retries
\* or with None, 0 or 3
InitRetries ==
    /\ package \in {"factgridbot", "factgridsyncwdbot"}
    /\ kwargs \in {{}} \cup {{<<"max_retries", given>>} : given \in {<< >>, <<0>>, <<3>>}}
    /\ mappings \in BatchesOf(RetryPairs)
    /\ progress_callback = FALSE
    /\ store = [wd \in WdIds |-> NoClaims]
    /\ pc = "call"
    /\ futures = << >>
    /\ queue = << >>
    /\ worker = [w \in Workers |-> IdleWorker]
    /\ finished = {}
    /\ yielded = << >>
    /\ failed = << >>
    /\ cbCount = [k \in 1..Len(mappings) |-> 0]
    /\ calls = << >>
    /\ doneOrder = << >>
    /\ startOrder = << >>
    /\ hist = [k \in 1..Len(mappings) |-> NoHist]
    /\ NoSync
    /\ NoFamilyNames
    /\ NoChunkedQuery
    /\ NoPropertyCheck
    /\ NoTranslation
    /\ NoEntityCall

\* the call with its arguments; no progress callback is given
NextRetries ==
    \/ BindArguments /\ UNCHANGED <<syncVars, labelVars, chunkVars, checkVars, uriVars, entityVars>>
    \/ RaiseTypeError /\ UNCHANGED <<syncVars, labelVars, chunkVars, checkVars, uriVars, entityVars>>
    \/ Submit /\ UNCHANGED <<syncVars, restVars>>
    \/ AsCompleted /\ UNCHANGED <<syncVars, restVars>>
    \/ Collect /\ UNCHANGED <<syncVars, restVars>>
    \/ CollectDone /\ UNCHANGED <<syncVars, restVars>>
    \/ Shutdown /\ UNCHANGED <<syncVars, restVars>>
    \/ \E w \in Workers : RejectMalformed(w) /\ UNCHANGED <<syncVars, restVars>>
    \/ \E w \in Workers : GetItem(w) /\ UNCHANGED <<syncVars, restVars>>
    \/ \E w \in Workers : GetItemFails(w) /\ UNCHANGED <<syncVars, restVars>>
    \/ \E w \in Workers : WriteItem(w) /\ UNCHANGED <<syncVars, restVars>>
    \/ \E w \in Workers : WriteItemFails(w) /\ UNCHANGED <<syncVars, restVars>>
    \/ \E w \in Workers : SetResult(w) /\ UNCHANGED <<syncVars, restVars>>
    \/ \E w \in Workers : InvokeCallbacks(w) /\ UNCHANGED <<syncVars, restVars>>

SpecRetries == InitRetries /\ [][NextRetries]_<<vars, syncVars, restVars>>
\* ------------------------------------------ add_factgrid_id on its own
\* self.wikidata.add_factgrid_id(entity, factgrid_id)
AddFactgridId ==
    /\ ~added
    /\ changed_entity' = add_factgrid_id(given_entity, given_id)
    /\ added' = TRUE
    /\ UNCHANGED <<given_entity, given_id>>

\* an item, a property or a lexeme with any of the claim lists for each of
\* the two back-reference properties; a FactGrid id or None
InitEntity ==
    /\ \E p8168, p10787 \in InitialClaimLists :
          LET claims == [p \in PropertyIds |->
                            IF p = FACTGRID_ITEM_ID THEN p8168 ELSE p10787]
          IN  given_entity \in {ItemEntity(claims), PropertyEntity(claims),
                                LexemeEntity(claims)}
    /\ given_id \in {NoneId, "Q7", "Q8"}
    /\ changed_entity = NoEntity
    /\ added = FALSE
    /\ NoWriteBack
    /\ NoSync
    /\ NoFamilyNames
    /\ NoChunkedQuery
    /\ NoPropertyCheck
    /\ NoTranslation
    /\ DefaultArguments

NextEntity ==
    AddFactgridId /\ UNCHANGED <<vars, syncVars, labelVars, chunkVars, checkVars, uriVars,
                                 argVars>>

SpecEntity == InitEntity /\ [][NextEntity]_<<vars, syncVars, restVars>>

\* ================================================================ properties
Idx == 1..Len(mappings)

WellFormed(k) == ~Malformed(mappings[k][1], mappings[k][2])

\* the error record of pair k with the message
RecordOf(k, error_message) ==
    [kind |-> "SyncErrorRecord", wd_id |-> mappings[k][1],
     factgrid_id |-> mappings[k][2], error_message |-> error_message]

CallsOf(k) == {j \in 1..Len(calls) : calls[j].task = k}

\* how many entries of the returned list equal the record
CountFailed(record) == Cardinality({j \in 1..Len(failed) : failed[j] = record})

\* C1: a pair with an empty or missing id yields exactly one SyncErrorRecord
\* carrying the pair, and neither get_item nor write_item is called for it.
C1_MalformedPairRejected ==
    \A k \in 1..Len(futures) :
        (~WellFormed(k) /\ futures[k].state = "finished")
            => /\ futures[k].result = RecordOf(k, MappingErrorMsg)
               /\ CallsOf(k) = {}

\* C2: a write_item failure of a well-formed pair is captured, not raised:
\* the future of the pair holds the record with the pair's ids and the
\* error's message, and the returned list holds one such record per failed
\* pair and none for a pair whose write succeeded.
C2_WriteFailureCaptured ==
    /\ \A k \in 1..Len(futures) :
          hist[k].outcome = "write_failed"
              => /\ futures[k].state = "finished"
                 /\ futures[k].result = RecordOf(k, WriteErrorMsg)
    /\ pc = "returned" =>
          /\ \A k \in Idx :
                WellFormed(k) =>
                   /\ CountFailed(RecordOf(k, WriteErrorMsg)) =
                        Cardinality({j \in Idx : /\ mappings[j] = mappings[k]
                                                 /\ hist[j].outcome = "write_failed"})
                   /\ \A j \in 1..Len(failed) :
                         (failed[j].wd_id = mappings[k][1]
                             /\ failed[j].factgrid_id = mappings[k][2])
                            => failed[j] = RecordOf(k, WriteErrorMsg)

\* a batch returned with a failed and a successful write in it
C2_Witness ==
    /\ pc = "returned"
    /\ \E k \in Idx : hist[k].outcome = "write_failed" /\ InSeq(RecordOf(k, WriteErrorMsg), failed)
    /\ \E k \in Idx : hist[k].outcome = "written"

\* C3: whatever step fails for one pair, every other pair is still processed
\* to completion and sync_wd_with_factgrid_ids returns the error records
\* instead of raising (the construction of the record of a pair with a
\* missing id, C1, set aside).
C3_OneFailureNeverAborts ==
    (\A k \in 1..Len(futures) : futures[k].result # Raised(ValidationErrorMsg))
        => /\ pc \notin {"exit_raise", "raised"}
           /\ pc \in {"returned", "raised"}
                 => \A k \in Idx : Len(futures) = Len(mappings)
                                   /\ futures[k].state = "finished"


\* ------------------------------------------------ add_factgrid_id in a batch
\* the call of pair k has fetched its entity and applied add_factgrid_id
Applied(k) == hist[k].outcome \in {"fetched", "written", "write_failed"}

\* the FactGrid id the call of pair k asks add_factgrid_id to add
Requested(k) == get_entity_id(mappings[k][2])

\* the back-reference claims of an item entity
Backrefs(entity) == entity.claims[FACTGRID_ITEM_ID]

C5_Idempotent ==
    /\ \A k \in 1..Len(futures) :
          (/\ Applied(k)
           /\ Len(Backrefs(hist[k].fetched)) = 1
           /\ Backrefs(hist[k].fetched)[1].value = Requested(k))
          => /\ hist[k].entity = hist[k].fetched
             /\ hist[k].outcome = "written" => hist[k].storeAfter = hist[k].storeBefore
    /\ \A j, k \in 1..Len(futures) :
          (j < k /\ mappings[j] = mappings[k] /\ hist[j].outcome = "written" /\ Applied(k))
          => /\ hist[k].entity.claims = hist[j].storeAfter
             /\ hist[k].outcome = "written" => hist[k].storeAfter = hist[j].storeAfter

\* the same pair written back twice, the first time adding the claim
C5_Witness ==
    \E j, k \in 1..Len(futures) :
        /\ j < k
        /\ mappings[j] = mappings[k]
        /\ hist[j].outcome = "written"
        /\ Backrefs(hist[j].fetched) = << >>
        /\ hist[k].outcome = "written"
        /\ Len(Backrefs(hist[k].fetched)) = 1

\* C6: an entity with more than one back-reference claim is left as fetched
\* by add_factgrid_id, whether or not one of the claims has the requested
\* value.
C6_SeveralClaimsUntouched ==
    \A k \in 1..Len(futures) :
        (Applied(k) /\ Len(Backrefs(hist[k].fetched)) > 1)
            => hist[k].entity = hist[k].fetched

HasValue(claims, value) == \E j \in 1..Len(claims) : claims[j].value = value

\* two pairs applied to an entity with several claims, the value of one among
\* them, the value of the other not
C6_Witness ==
    \E j, k \in 1..Len(futures) :
        /\ Applied(j) /\ Applied(k)
        /\ Len(Backrefs(hist[j].fetched)) > 1
        /\ Len(Backrefs(hist[k].fetched)) > 1
        /\ HasValue(Backrefs(hist[j].fetched), Requested(j))
        /\ ~HasValue(Backrefs(hist[k].fetched), Requested(k))

\* C7: on an entity without back-reference claim add_factgrid_id adds exactly
\* one claim, with the requested FactGrid id as value and exactly one
\* reference of exactly two parts, stated in (P248) and retrieved (P813).
C7_ClaimCreated ==
    \A k \in 1..Len(futures) :
        (Applied(k) /\ Backrefs(hist[k].fetched) = << >>)
            => LET claims == Backrefs(hist[k].entity)
               IN  /\ Len(claims) = 1
                   /\ claims[1].value = Requested(k)
                   /\ Requested(k) # NoneId
                   /\ Len(claims[1].references) = 1
                   /\ Len(claims[1].references[1]) = 2
                   /\ {claims[1].references[1][j] : j \in 1..2} = {"P248", "P813"}
                   /\ \A p \in PropertyIds \ {FACTGRID_ITEM_ID} :
                         hist[k].entity.claims[p] = hist[k].fetched.claims[p]

\* a claim added to an entity without one, and written
C7_Witness ==
    \E k \in 1..Len(futures) :
        /\ hist[k].outcome = "written"
        /\ Backrefs(hist[k].fetched) = << >>
        /\ Len(store[mappings[k][1]][FACTGRID_ITEM_ID]) = 1

\* ------------------------------------------------------------ the executor
\* C8: write-back is serialized. At no moment are two calls of
\* _sync_wd_with_factgrid_id in progress, and the calls start in the order
\* of submission (the pairs are submitted without waiting for them).
C8_Serialized ==
    /\ Cardinality({k \in 1..Len(futures) : futures[k].state = "running"}) <= 1
    /\ \A j \in 1..Len(startOrder) : startOrder[j] = j
    /\ \A j \in 1..Len(doneOrder) : doneOrder[j] = j

\* every pair is submitted while the call of the first is still in progress
C8_Witness ==
    /\ Len(mappings) >= 2
    /\ Len(futures) = Len(mappings)
    /\ futures[1].state = "running"
    /\ Len(queue) = Len(mappings) - 1

SumCb ==
    LET sum[k \in 0..Len(cbCount)] == IF k = 0 THEN 0 ELSE sum[k - 1] + cbCount[k]
    IN  sum[Len(cbCount)]

\* C9: a given progress callback runs at most once per submitted pair and
\* never before the pair's call has finished; when
\* sync_wd_with_factgrid_ids returns it has run once per pair, len(mappings)
\* times in all.
C9_CallbackOncePerPair ==
    progress_callback =>
        /\ \A k \in Idx : cbCount[k] <= 1
        /\ \A k \in Idx : cbCount[k] = 1 => (k <= Len(futures) /\ futures[k].state = "finished")
        /\ pc = "returned" => (SumCb = Len(mappings) /\ \A k \in Idx : cbCount[k] = 1)

\* a batch returned, one callback run by the worker, one by the submitting
\* thread, one pair ended with an error record
C9_Witness ==
    /\ pc = "returned"
    /\ progress_callback
    /\ \E j, k \in Idx : futures[j].callback /\ ~futures[k].callback
    /\ failed # << >>

\* ---------------------------------------------------- the sequential loop
\* what a call of _sync_wd_with_factgrid_id of the loop returns for pair k,
\* the remote calls answering as they did in the batch
SeqResult(k) ==
    CASE hist[k].outcome = "malformed" ->
            SyncErrorRecord(mappings[k][1], mappings[k][2], MappingErrorMsg)
      [] hist[k].outcome = "fetch_failed" -> Raised(FetchErrorMsg)
      [] hist[k].outcome = "write_failed" ->
            CaughtWriteError(mappings[k][1], mappings[k][2], WriteErrorMsg)
      [] OTHER -> NoResult

\* the first pair whose call raises ends the loop
SeqRaising == {k \in Idx : SeqResult(k).kind = "exception"}

SeqStop ==
    IF SeqRaising = {} THEN Len(mappings) + 1
    ELSE CHOOSE k \in SeqRaising : \A j \in SeqRaising : k <= j

SeqCallsOf(k) ==
    CASE hist[k].outcome = "malformed" -> << >>
      [] hist[k].outcome = "fetch_failed" -> <<Call("get_item", k)>>
      [] OTHER -> <<Call("get_item", k), Call("write_item", k)>>

SeqCalls ==
    LET upto[k \in 0..Len(mappings)] ==
            IF k = 0 THEN << >>
            ELSE IF k > SeqStop THEN upto[k - 1]
            ELSE upto[k - 1] \o SeqCallsOf(k)
    IN  upto[Len(mappings)]

SeqCallbacks == IF progress_callback THEN SeqStop - 1 ELSE 0

SeqFailed == {SeqResult(k) : k \in {j \in Idx : j < SeqStop /\ SeqResult(j).kind = "SyncErrorRecord"}}

\* C10: the pool is observationally equivalent to the sequential loop that
\* calls the progress callback after each item: the same sequence of remote
\* calls, the same number of callback runs, the same set of error records.
C10_EquivalentToSequentialLoop ==
    pc \in {"returned", "raised"} =>
        /\ calls = SeqCalls
        /\ SumCb = SeqCallbacks
        /\ (pc = "raised") = (SeqRaising # {})
        /\ pc = "returned" => {failed[j] : j \in 1..Len(failed)} = SeqFailed

\* ---------------------------------------------------------- the sync command
\* the remote calls of the write-back step
WriteBackCalls == {j \in 1..Len(calls) : calls[j].op \in {"get_item", "write_item"}}

\* C11: under the dry-run flag the sync command skips the write-back step:
\* whatever mapping list discovery returned, sync_wd_with_factgrid_ids is
\* never entered, no entity is fetched and no write_item call is made.
C11_DryRunSkipsWriteBack ==
    options.dry_run =>
        /\ pc = "none"
        /\ futures = << >>
        /\ WriteBackCalls = {}
        /\ cli \notin {"write_back", "raised"}

\* the command ended under dry-run with a mapping list that is not empty
C11_Witness ==
    /\ options.dry_run
    /\ cli = "done"
    /\ Len(mappings) > 0

\* the Wikidata entities a discovery query reported as missing the back-reference
ReportedMissing ==
    UNION {queries[j].rows : j \in {i \in 1..Len(queries) : queries[i].service = "wikidata"}}

\* C12: in every missing cross-reference report, for each discovery strategy
\* (global, modification window, explicit entity on either side), every
\* returned pair is one whose Wikidata item lacks the FactGrid back-reference
\* property at discovery time.
C12_ReportedPairsLackBackref ==
    cli = "discovered" =>
        \A k \in 1..Len(mappings) : ~HasBackref(store, mappings[k][1])

\* the first option set, in the order factgrid_entity, wd_entity, date, all
FirstSet ==
    IF options.factgrid_entity # NoneId THEN "factgrid_entity"
    ELSE IF options.wd_entity # NoneId THEN "wd_entity"
    ELSE IF options.date # NoneId THEN "date"
    ELSE IF options.all THEN "all"
    ELSE "none"

\* the queries each strategy makes
QueriesOf(name) ==
    CASE name = "factgrid_entity" -> << "get_reverse_item_mapping_for" >>
      [] name = "wd_entity" -> << "get_item_mapping_for" >>
      [] name = "date" -> << "get_items_modified_at", "get_reverse_item_mapping_for",
                             "retrieve_missing_factgrid_reference" >>
      [] name = "all" -> << "get_all_referenced_wikidata_items",
                            "retrieve_missing_factgrid_reference", "get_item_mapping_for" >>
      [] OTHER -> << >>

LinkMappingOf(items) ==
    {<<get_wikidata_entity_id_from_sitelink(l[1]), l[2]>> : l \in {x \in sitelinks : x[2] \in items}}

C16_GlobalDiscovery ==
    (cli = "discovered" /\ strategy = "all") =>
        /\ \A j \in 1..Len(queries) :
              queries[j].service = "wikidata" =>
                  queries[j].values \subseteq
                      {get_wikidata_entity_id_from_sitelink(l[1]) : l \in sitelinks}
        /\ \A k \in 1..Len(mappings) :
              /\ mappings[k][1] \in ReportedMissing
              /\ mappings[k] \in LinkMappingOf(FactGridItems)

\* global discovery returned a pair and left a linked entity out
C16_Witness ==
    /\ cli = "discovered"
    /\ strategy = "all"
    /\ Len(mappings) > 0
    /\ LinkMappingOf(FactGridItems) \ Range(mappings) # {}

\* ---------------------------------------------------------- label matching
\* the FactGrid items without a Wikidata sitelink that carry the label
FgWith(label) ==
    {item \in FgFamilyItems : fgItems[item].wikidatawiki = NoneId /\ fgItems[item].label = label}

\* the Wikidata items that carry the label
WdWith(label) == {item \in WdFamilyItems : wdItems[item] = label}

\* the labels carried on both sides
OnBothSides == {label \in Labels : FgWith(label) # {} /\ WdWith(label) # {}}

\* C17: label-matching discovery returns exactly one triple for each label that
\* is the label of a FactGrid item of the class missing a Wikidata link and of
\* a Wikidata item of the class, no triple for a label present on one side
\* only, and each triple lists all candidates of both sides, each once.
C17_OneTriplePerSharedLabel ==
    fam = "matched" =>
        /\ {label_mappings[j][1] : j \in 1..Len(label_mappings)} = OnBothSides
        /\ Len(label_mappings) = Cardinality(OnBothSides)
        /\ \A j \in 1..Len(label_mappings) :
              LET t == label_mappings[j]
              IN  /\ {Range(t[2]), Range(t[3])} = {FgWith(t[1]), WdWith(t[1])}
                  /\ Len(t[2]) + Len(t[3]) =
                         Cardinality(FgWith(t[1])) + Cardinality(WdWith(t[1]))

\* FactGrid holds "Smith" and "Jones", Wikidata "Smith" only: one triple
C17_Witness ==
    /\ fam = "matched"
    /\ FgWith("Smith") # {}
    /\ FgWith("Jones") # {}
    /\ WdWith("Smith") # {}
    /\ WdWith("Jones") = {}
    /\ Len(label_mappings) = 1
    /\ label_mappings[1][1] = "Smith"

\* C18: each triple returned by get_label_matches_by_entity_class has the form
\* (label, FactGrid ids with that label, Wikidata ids with that label): the
\* second component holds the FactGrid candidates, the third the Wikidata
\* candidates.
C18_TripleOrder ==
    fam = "matched" =>
        \A j \in 1..Len(label_mappings) :
            /\ Range(label_mappings[j][2]) = FgWith(label_mappings[j][1])
            /\ Range(label_mappings[j][3]) = WdWith(label_mappings[j][1])

\* the pairs <<Wikidata id, FactGrid id>> the command tried to write
Attempts == Range(written) \cup {<<f[3], f[2]>> : f \in Range(fails)}

\* the candidates of a triple, of both sides
Candidates(t) == Range(t[2]) \cup Range(t[3])

\* C19: the family-names command acts only on label triples that are
\* unambiguous on at least one side: a triple with several candidates on both
\* sides never leads to a write, and every written pair consists of a
\* Wikidata candidate and a FactGrid candidate of one and the same triple.
C19_OnlyUnambiguousTriples ==
    \A a \in Attempts :
        /\ a[1] \in WdFamilyItems
        /\ a[2] \in FgFamilyItems
        /\ \E j \in 1..Len(label_mappings) :
              /\ {a[1], a[2]} \subseteq Candidates(label_mappings[j])
              /\ Len(label_mappings[j][2]) = 1 \/ Len(label_mappings[j][3]) = 1

\* a pair was written while another triple had several candidates on both sides
C19_Witness ==
    /\ fam = "done"
    /\ written # << >>
    /\ \E j \in 1..Len(label_mappings) :
          /\ Len(label_mappings[j][2]) > 1
          /\ Len(label_mappings[j][3]) > 1
          /\ \A a \in Attempts : a[1] \notin Candidates(label_mappings[j])

\* ---------------------------------------------------- chunked VALUES queries
\* the rows of a list as a multiset: how often each row occurs
BagOf(rows) == [r \in Range(rows) |-> Cardinality({j \in 1..Len(rows) : rows[j] = r})]

\* the value list was split into chunks of at most chunk_size values, one
\* request each
SplitInChunks ==
    /\ \A j \in 1..Len(requests) : Len(requests[j]) \in 1..chunk_size
    /\ Concat(requests) = all_values

\* the chunked query returned the multiset of rows of the unchunked query
SameRows ==
    BagOf(result_rows) = BagOf(execute_query(query_template, store, sitelinks, all_values))

\* no value occurs twice in the value list
NoRepeatedValue == Cardinality(Range(all_values)) = Len(all_values)

CompleteDiscovery ==
    cli \in {"discovered", "write_back", "done", "raised"} =>
        Len(queries) = Len(QueriesOf(strategy))

\* a command a query failure ended has no mapping list and started no
\* write-back
NothingActedOn ==
    cli = "query_raised" =>
        /\ Len(queries) < Len(QueriesOf(strategy))
        /\ mappings = << >>
        /\ pc = "none"
        /\ futures = << >>
        /\ calls = << >>

\* C21: a transport/query failure during discovery is not caught: it
\* propagates out of the discovery operation and aborts the sync command, so
\* that no write-back is started and no partial mapping list is acted on; the
\* command takes no further step.
C21_DiscoveryFailureAborts ==
    /\ [](CompleteDiscovery /\ NothingActedOn)
    /\ [][cli = "query_raised" => UNCHANGED <<vars, syncVars>>]_<<vars, syncVars>>

\* the third query of a strategy failed after the first two were answered with
\* rows, in a run that was to write back
C21_Witness ==
    /\ cli = "query_raised"
    /\ ~options.dry_run
    /\ Len(queries) = 2
    /\ queries[2].rows # {}

\* ------------------------------------------------- the property reports
\* the property pair of a P343 statement with the types the graphs declare
PropertyMappingOf(statement) ==
    [factgrid |-> [property_id |-> statement[1],
                   property_type |-> declared_types[statement[1]]],
     wikidata |-> [property_id |-> wd_prop_of(statement[2]),
                   property_type |-> declared_types[wd_prop_of(statement[2])]]]

\* the rows of the datatype table for the pair of a statement
TypeRowsOf(statement) ==
    {j \in 1..Len(type_table.rows) :
        /\ type_table.rows[j].factgrid = statement[1]
        /\ type_table.rows[j].wikidata = wd_prop_of(statement[2])}

\* every row of the datatype table is the row of a statement and shows the
\* types the graphs declare
TypeRowsAreStatements ==
    \A j \in 1..Len(type_table.rows) :
        \E statement \in prop_statements :
            /\ j \in TypeRowsOf(statement)
            /\ type_table.rows[j].factgrid_datatype = declared_types[statement[1]]
            /\ type_table.rows[j].wikidata_datatype =
                   declared_types[wd_prop_of(statement[2])]

\* C22: the datatype mismatch report contains a row for a property pair if
\* and only if the declared value type of the FactGrid property differs from
\* that of the Wikidata property (a pair with no declared type on both sides
\* is not a mismatch); the report never writes to either graph.
C22_MismatchRowIffTypesDiffer ==
    /\ [](type_table.printed =>
            /\ \A statement \in prop_statements :
                  Cardinality(TypeRowsOf(statement)) =
                      IF have_same_datatype(PropertyMappingOf(statement)) THEN 0 ELSE 1
            /\ TypeRowsAreStatements)
    /\ [][UNCHANGED <<prop_statements, declared_types, store, calls, written>>]_<<vars, syncVars, restVars>>

\* the report left out a pair without a declared type on either side and a
\* pair with the same type on both, and printed a pair with a type on the
\* FactGrid side only
C22_Witness ==
    /\ type_table.printed
    /\ \E a, b, c \in prop_statements :
          /\ PropertyMappingOf(a).factgrid.property_type = NoneId
          /\ PropertyMappingOf(a).wikidata.property_type = NoneId
          /\ TypeRowsOf(a) = {}
          /\ PropertyMappingOf(b).factgrid.property_type # NoneId
          /\ have_same_datatype(PropertyMappingOf(b))
          /\ TypeRowsOf(b) = {}
          /\ PropertyMappingOf(c).factgrid.property_type # NoneId
          /\ PropertyMappingOf(c).wikidata.property_type = NoneId
          /\ TypeRowsOf(c) # {}

\* the Wikidata properties FactGrid states for a FactGrid property, and the
\* FactGrid properties that state a Wikidata property
WdCounterparts(factgrid_prop) ==
    {wd_prop_of(statement[2]) : statement \in {t \in prop_statements : t[1] = factgrid_prop}}

FgCounterparts(wd_prop) ==
    {statement[1] : statement \in {t \in prop_statements : wd_prop_of(t[2]) = wd_prop}}

\* the table has a row for the property exactly if it has several
\* counterparts; the row lists each of them once and counts them
CollisionRow(table, property, counterparts) ==
    LET rows == {j \in 1..Len(table.rows) : table.rows[j].property = property}
    IN  /\ Cardinality(rows) = IF Cardinality(counterparts) > 1 THEN 1 ELSE 0
        /\ \A j \in rows :
              /\ Range(table.rows[j].counterparts) = counterparts
              /\ Len(table.rows[j].counterparts) = Cardinality(counterparts)
              /\ table.rows[j].count = str(Cardinality(counterparts))

\* C23: the duplicate property mapping report contains a row for a property,
\* in each direction (FactGrid to Wikidata and Wikidata to FactGrid), if and
\* only if that property's group has more than one counterpart, and the row's
\* count equals the number of counterparts listed.
C23_DuplicateRowIffSeveralCounterparts ==
    /\ mapping_tables.factgrid_to_wd.printed =>
          /\ \A factgrid_prop \in FgProps :
                CollisionRow(mapping_tables.factgrid_to_wd, factgrid_prop,
                             WdCounterparts(factgrid_prop))
          /\ \A j \in 1..Len(mapping_tables.factgrid_to_wd.rows) :
                mapping_tables.factgrid_to_wd.rows[j].property \in FgProps
    /\ mapping_tables.wd_to_factgrid.printed =>
          /\ \A wd_prop \in WdProps :
                CollisionRow(mapping_tables.wd_to_factgrid, wd_prop, FgCounterparts(wd_prop))
          /\ \A j \in 1..Len(mapping_tables.wd_to_factgrid.rows) :
                mapping_tables.wd_to_factgrid.rows[j].property \in WdProps

\* each direction has one collision and a property with one counterpart
C23_Witness ==
    /\ mapping_tables.factgrid_to_wd.printed
    /\ Len(mapping_tables.factgrid_to_wd.rows) = 1
    /\ mapping_tables.factgrid_to_wd.rows[1].count = "2"
    /\ \E factgrid_prop \in FgProps : Cardinality(WdCounterparts(factgrid_prop)) = 1
    /\ mapping_tables.wd_to_factgrid.printed
    /\ Len(mapping_tables.wd_to_factgrid.rows) = 1
    /\ \E wd_prop \in WdProps : Cardinality(FgCounterparts(wd_prop)) = 1

\* ------------------------------------------------- prefix substitution
StartsWith(uri, prefix) == Tokens(uri) # << >> /\ Tokens(uri)[1] = prefix

\* the URI with its leading prefix replaced by the other one
PrefixReplaced(uri, new) == new \o Join(Tail(Tokens(uri)))

\* C24: identity translation between a Wikidata sitelink URL and a Wikidata
\* entity URI is pure prefix substitution: for every URI that starts with one
\* prefix, only that leading prefix is replaced by the other and the rest is
\* unchanged, so get_wikidata_entity_id_from_sitelink and
\* get_wikidata_sitelink_from_entity_id are inverse to each other on such
\* URIs.
C24_PurePrefixSubstitution ==
    /\ (uri_pc \in {"entity_id", "entity_id_and_back"} /\ StartsWith(uri_in, wiki_page_prefix)) =>
          uri_out = PrefixReplaced(uri_in, item_prefix)
    /\ (uri_pc \in {"sitelink", "sitelink_and_back"} /\ StartsWith(uri_in, item_prefix)) =>
          uri_out = PrefixReplaced(uri_in, wiki_page_prefix)
    /\ (uri_pc = "entity_id_and_back" /\ StartsWith(uri_in, wiki_page_prefix)) =>
          uri_back = uri_in
    /\ (uri_pc = "sitelink_and_back" /\ StartsWith(uri_in, item_prefix)) =>
          uri_back = uri_in

\* ------------------------------------------------------ the retry count
\* the call is over
CallOver ==
    /\ pc \in {"returned", "raised"}
    /\ queue = << >>
    /\ \A w \in Workers : worker[w].stage = "idle"

\* C25: the retry count specified by the caller of write-back bounds the
\* resubmission of every item: the max_retries value given to
\* sync_wd_with_factgrid_ids is the value passed to write_item for each
\* well-formed pair of the batch (whose entity was fetched), so no item is
\* retried beyond the caller-specified count.
C25_RetryCountPassedOn ==
    kwargs # {} =>
        /\ \A j \in 1..Len(calls) :
              calls[j].op = "write_item" =>
                  calls[j].kwargs = {<<"max_retries", max_retries_of(kwargs)>>}
        /\ CallOver =>
              \A k \in Idx :
                  (WellFormed(k) /\ hist[k].outcome # "fetch_failed") =>
                      \E j \in 1..Len(calls) :
                          /\ calls[j].op = "write_item"
                          /\ calls[j].task = k
                          /\ calls[j].kwargs = {<<"max_retries", max_retries_of(kwargs)>>}

\* -------------------------------------------------- the confirmation
\* the user answered yes to the confirmation prompt
Confirmed ==
    \E j \in 1..Len(prompts) :
        /\ prompts[j].question =
               "Are you sure you want to add the Wikidata Id to the FactGrid entities?"
        /\ prompts[j].answer

\* C26: in the family-names command, when the force option is not set the
\* changes have to be confirmed: no FactGrid entity is fetched for editing or
\* written unless force is set or the user answered yes to the confirmation
\* prompt.
C26_UnforcedChangesConfirmed ==
    /\ (fam = "adding" \/ written # << >> \/ fails # << >>) => (force \/ Confirmed)
    /\ (~force /\ fam # "family_names" /\ ~Confirmed) =>
          \A item \in FgFamilyItems : fgItems[item].wikidatawiki \in {NoneId, "Q1"}

\* without force, the user confirmed and an item was written
C26_Witness ==
    /\ ~force
    /\ Confirmed
    /\ written # << >>

\* ------------------------------------------- failures of the family names
\* the written pairs and the failed entries, each in its order, are the
\* mappings in their order
RECURSIVE Interleaved(_, _, _)
Interleaved(given, succeeded, failures) ==
    IF given = << >> THEN succeeded = << >> /\ failures = << >>
    ELSE \/ /\ succeeded # << >>
            /\ Head(succeeded) = <<Head(given)[2], Head(given)[3]>>
            /\ Interleaved(Tail(given), Tail(succeeded), failures)
         \/ /\ failures # << >>
            /\ Head(failures) = <<Head(given)[1], Head(given)[3], Head(given)[2]>>
            /\ Interleaved(Tail(given), succeeded, Tail(failures))

\* C30: add_wikidata_id_to_factgrid_family_name processes every given (label,
\* Wikidata id, FactGrid id) mapping in order and never raises: any failure of
\* fetching, changing or writing one FactGrid item is recorded as exactly one
\* (label, FactGrid id, Wikidata id) entry of the returned list, the remaining
\* mappings are still processed, and the progress callback is invoked exactly
\* once per mapping whether it succeeded or failed.
C30_FailuresRecordedNotRaised ==
    /\ fam # "raised"
    /\ fam = "adding" =>
          /\ Interleaved(SubSeq(valid_mappings, 1, Handled), written, fails)
          /\ advanced = [k \in 1..Handled |-> k]
    /\ (fam = "done" /\ (force \/ Confirmed)) =>
          /\ Handled = Len(valid_mappings)
          /\ Interleaved(valid_mappings, written, fails)
          /\ advanced = [k \in 1..Len(valid_mappings) |-> k]

\* the call returned after a failed pass that was followed by a pass that
\* wrote an item
C30_Witness ==
    /\ fam = "done"
    /\ Len(fails) = 1
    /\ Len(valid_mappings) = 2
    /\ fails[1] = <<valid_mappings[1][1], valid_mappings[1][3], valid_mappings[1][2]>>
    /\ written = << <<valid_mappings[2][2], valid_mappings[2][3]>> >>
    /\ advanced = <<1, 2>>

\* ------------------------------------------- one fetch and one write
GetItemCalls(k) == {j \in CallsOf(k) : calls[j].op = "get_item"}

WriteItemCalls(k) == {j \in CallsOf(k) : calls[j].op = "write_item"}

LaterPairFor(j, k) ==
    /\ j < k
    /\ WellFormed(j)
    /\ WellFormed(k)
    /\ mappings[j][1] = mappings[k][1]

\* C28: because each pair is processed on its own freshly fetched entity and
\* pairs run one at a time, a batch in which the same Wikidata id occurs in
\* several pairs (with different FactGrid ids) never leaves that Wikidata
\* entity with more than one bot-added back-reference claim: if the entity
\* had no such claim before the batch, after the batch it has at most one,
\* and later pairs for that entity hit the identical-value or conflict branch
\* once an earlier write succeeded.
C28_AtMostOneBackrefPerEntity ==
    /\ \A wd \in WdIds : Len(store[wd][FACTGRID_ITEM_ID]) <= 1
    /\ \A j, k \in 1..Len(futures) :
          (LaterPairFor(j, k) /\ hist[j].outcome = "written" /\ Applied(k)) =>
              /\ Len(Backrefs(hist[k].fetched)) = 1
              /\ hist[k].entity = hist[k].fetched
              /\ \E i \in 1..(k - 1) :
                    /\ LaterPairFor(i, k)
                    /\ hist[i].outcome = "written"
                    /\ Backrefs(hist[k].fetched)[1].value = Requested(i)

\* two pairs for one Wikidata entity with different FactGrid ids were both
\* written: the entity holds the claim of the first one only
C28_Witness ==
    /\ CallOver
    /\ \E j, k \in Idx :
          /\ LaterPairFor(j, k)
          /\ Requested(j) # Requested(k)
          /\ hist[j].outcome = "written"
          /\ hist[k].outcome = "written"
          /\ Len(store[mappings[k][1]][FACTGRID_ITEM_ID]) = 1
          /\ store[mappings[k][1]][FACTGRID_ITEM_ID][1].value = Requested(j)

\* ------------------------------------------------ the frame of the call
\* the claims of the entity, of every property together
ClaimCount(entity) ==
    Len(entity.claims[FACTGRID_ITEM_ID]) + Len(entity.claims[FACTGRID_PROPERTY_ID])

\* the property add_factgrid_id is to use for the entity
BackrefPropertyOf(entity) ==
    IF entity.type = "item" THEN "P8168" ELSE "P10787"

\* C29: add_factgrid_id never changes or removes an existing claim and adds
\* at most one claim per call; it leaves the entity entirely unchanged when
\* the FactGrid id is None, when the entity is neither an item nor a property
\* entity, and when the single existing back-reference claim has no value. It
\* uses property P8168 for an item entity and P10787 for a property entity.
C29_AddsAtMostOneClaim ==
    added =>
        /\ changed_entity.type = given_entity.type
        /\ \A p \in PropertyIds :
              /\ Len(changed_entity.claims[p]) >= Len(given_entity.claims[p])
              /\ SubSeq(changed_entity.claims[p], 1, Len(given_entity.claims[p])) =
                     given_entity.claims[p]
        /\ ClaimCount(changed_entity) <= ClaimCount(given_entity) + 1
        /\ given_id = NoneId => changed_entity = given_entity
        /\ given_entity.type \notin {"item", "property"} => changed_entity = given_entity
        /\ (/\ given_entity.type \in {"item", "property"}
            /\ Len(given_entity.claims[BackrefPropertyOf(given_entity)]) = 1
            /\ given_entity.claims[BackrefPropertyOf(given_entity)][1].value = NoneId)
           => changed_entity = given_entity
        /\ \A p \in PropertyIds :
              p # BackrefPropertyOf(given_entity) =>
                  changed_entity.claims[p] = given_entity.claims[p]
        /\ (/\ given_id # NoneId
            /\ given_entity.type \in {"item", "property"}
            /\ given_entity.claims[BackrefPropertyOf(given_entity)] = << >>)
           => changed_entity.claims[BackrefPropertyOf(given_entity)] =
                  << Claim(given_id, NewReferences) >>

\* a property entity that holds claims of P8168 got its claim of P10787
C29_Witness ==
    /\ added
    /\ given_entity.type = "property"
    /\ given_entity.claims["P8168"] # << >>
    /\ given_entity.claims["P10787"] = << >>
    /\ Len(changed_entity.claims["P10787"]) = 1
    /\ changed_entity.claims["P8168"] = given_entity.claims["P8168"]

====
